---- MODULE Spec2Model ----
(***************************************************************************)
(* CM710-4 RFID reader programs: the serial frame format, the continuous   *)
(* inventory stream loop of the two reader scripts, and the frames the     *)
(* configuration scripts write.                                            *)
(*                                                                         *)
(* Bytes are integers 0..255.  Hex text (a Python str of hex digits) is a  *)
(* sequence of tokens: 0..15 are the hex digits, HexSpace is a blank.      *)
(* Python indexes are kept (0-based) through At and PySlice.               *)
(***************************************************************************)
EXTENDS Integers, Sequences, FiniteSets, TLC

\* ------------------------------------------------------------------ bounds
\* Longest hex text tried for the region and FastID settings.
MaxHexLen == 3
\* How many frames the module sends during one reader run.
MaxFrames == 2
\* How many settings one set_config call carries.
MaxSettings == 2
\* signals delivered to a reader during one run
MaxSignals == 2

\* --------------------------------------------------------- program constants
INVENTORY_RESPONSE == 131
MIN_FRAME_POS == 10
MIN_FRAME_LEN == 12
EPC_FILTER_LEN == 8
POT_MIN == 5
POT_MAX == 30
POT_DEFAULT == 20
FREQ_MIN == 840000
FREQ_MAX == 928000

\* ------------------------------------------------------------ Python helpers
Min(a, b) == IF a < b THEN a ELSE b

\* s[i] of Python, defined for 0 <= i < len(s)
At(s, i) == s[i + 1]

\* s[a:b] of Python for 0 <= a <= b: clipped to the sequence, never an error
PySlice(s, a, b) == SubSeq(s, a + 1, Min(b, Len(s)))

\* s[a:] of Python
PyFrom(s, a) == SubSeq(s, a + 1, Len(s))

RECURSIVE XorBits(_, _, _)
XorBits(a, b, n) ==
    IF n = 0 THEN 0
    ELSE (((a % 2) + (b % 2)) % 2) + 2 * XorBits(a \div 2, b \div 2, n - 1)

\* a ^ b on non-negative integers below 2^12
Xor(a, b) == XorBits(a, b, 12)

\* the token of a blank in hex text (one past the last hex digit)
HexSpace == 15 + 1

\* format(x, "0<width>X"): the hex digits of x >= 0, zero-padded to width
RECURSIVE HexDigits(_)
HexDigits(x) == IF x < 16 THEN <<x>> ELSE Append(HexDigits(x \div 16), (x % 16))

RECURSIVE ZeroPad(_, _)
ZeroPad(s, width) == IF Len(s) >= width THEN s ELSE ZeroPad(<<0>> \o s, width)

FormatHex(x, width) == ZeroPad(HexDigits(x), width)

\* bytes.hex().upper(): two hex digits per byte
RECURSIVE BytesHex(_)
BytesHex(b) ==
    IF b = <<>> THEN <<>>
    ELSE <<Head(b) \div 16, Head(b) % 16>> \o BytesHex(Tail(b))

\* int(text, 16) for a non-empty text of hex digits
RECURSIVE IntHex(_)
IntHex(t) ==
    IF Len(t) = 0 THEN 0
    ELSE 16 * IntHex(SubSeq(t, 1, Len(t) - 1)) + t[Len(t)]

\* bytes.fromhex(text): blanks between byte pairs are skipped; a pair cut
\* short or holding a blank raises ValueError
RECURSIVE FromHexOk(_)
FromHexOk(t) ==
    IF t = <<>> THEN TRUE
    ELSE IF Head(t) = HexSpace THEN FromHexOk(Tail(t))
    ELSE Len(t) >= 2 /\ t[2] # HexSpace /\ FromHexOk(Tail(Tail(t)))

RECURSIVE FromHex(_)
FromHex(t) ==
    IF t = <<>> THEN <<>>
    ELSE IF Head(t) = HexSpace THEN FromHex(Tail(t))
    ELSE <<16 * t[1] + t[2]>> \o FromHex(Tail(Tail(t)))

\* ------------------------------------------------------------------- frames
HEADER == <<200, 140>>
TRAILER == <<13, 10>>
HEADER_HEX == <<12, 8, 8, 12>>
TRAILER_HEX == <<0, 13, 0, 10>>

\* calcular_bcc adding the bytes instead of XOR-ing them
RECURSIVE calcular_bcc_sum(_)
calcular_bcc_sum(dados_hex) ==
    IF Len(dados_hex) = 0 THEN 0
    ELSE IF Len(dados_hex) = 1 THEN dados_hex[1]
    ELSE ((16 * dados_hex[1] + dados_hex[2])
          + calcular_bcc_sum(Tail(Tail(dados_hex)))) % 256

\* calcular_bcc(dados_hex): XOR of int(dados_hex[i:i+2], 16) for i = 0, 2, ...
\* (a trailing single digit counts as a value of its own)
RECURSIVE calcular_bcc(_)
calcular_bcc(dados_hex) ==
    IF Len(dados_hex) = 0 THEN 0
    ELSE IF Len(dados_hex) = 1 THEN dados_hex[1]
    ELSE Xor(16 * dados_hex[1] + dados_hex[2],
             calcular_bcc(Tail(Tail(dados_hex))))

\* cmd_x = f"C88C{dados}{bcc:02X}0D0A" with bcc = calcular_bcc(dados)
BuildCommand(dados) ==
    HEADER_HEX \o dados \o FormatHex(calcular_bcc(dados), 2) \o TRAILER_HEX

\* The length field the program's frames carry: every literal frame of the
\* scripts has LEN = the whole frame's byte count (000A with two data bytes,
\* 000E with six, 0008 with none), written as four hex digits.
FrameLength(data) == 8 + Len(data)

\* The wire frame of (command, data) in the layout the scripts build and parse:
\* C8 8C LEN_HI LEN_LO CMD DATA... BCC 0D 0A
EncodeFrame(command, data) ==
    FromHex(BuildCommand(FormatHex(FrameLength(data), 4)
                         \o FormatHex(command, 2) \o BytesHex(data)))

\* ------------------------------------------------------- inventory decoding
\* buffer.find(b'\x0D\x0A'): the 0-based place of the first 0D 0A, or -1
FindTrailer(buffer) ==
    LET hits == {p \in 1..(Len(buffer) - 1) :
                    buffer[p] = TRAILER[1] /\ buffer[p + 1] = TRAILER[2]}
    IN IF hits = {} THEN -1
       ELSE (CHOOSE p \in hits : \A q \in hits : p <= q) - 1

\* the RSSI sign test off by one: 0x7FFF taken as negative
RssiTenths_ge(rssi_raw) == IF rssi_raw >= 32767 THEN rssi_raw - 65536 ELSE rssi_raw

\* rssi in tenths of a dBm: (rssi_raw - 65536) if rssi_raw > 32767 else rssi_raw
\* (the code divides by 10.0; tenths keep the value exact)
RssiTenths(rssi_raw) == IF rssi_raw > 32767 THEN rssi_raw - 65536 ELSE rssi_raw

\* the antenna fold without the "- 1"
AntennaOf_no_offset(raw) == (raw % 4) + 1

\* antenna = ((frame[i] - 1) % 4) + 1
AntennaOf(raw) == ((raw - 1) % 4) + 1

\* epc_len = ((pc >> 11) & 0x1F) * 2
EpcLen(pc) == ((pc \div 2048) % 32) * 2

Skip == [kind |-> "skip"]
IndexError == [kind |-> "error"]

\* The field decode shared by parse_frame and the rfid_scripts stream loop:
\* "skip" when the frame fails the length/header/command tests, "error" when
\* an index runs past the frame (Python's IndexError), else the reading.
ParseFields(frame) ==
    IF Len(frame) < MIN_FRAME_LEN THEN Skip
    ELSE IF PySlice(frame, 0, 2) # HEADER THEN Skip
    ELSE IF At(frame, 4) # INVENTORY_RESPONSE THEN Skip
    ELSE LET pc == At(frame, 5) * 256 + At(frame, 6)
             epc_len == EpcLen(pc)
             epc == BytesHex(PySlice(frame, 7, 7 + epc_len))
             i == 7 + epc_len
         IN IF i + 1 >= Len(frame) THEN IndexError
            ELSE IF i + 2 >= Len(frame) THEN IndexError
            ELSE [kind |-> "reading",
                  epc |-> epc,
                  antenna |-> AntennaOf(At(frame, i + 2)),
                  rssi |-> RssiTenths(At(frame, i) * 256 + At(frame, i + 1))]

\* parse_frame(frame) of the local reader: any exception is logged and
\* becomes None
None == [kind |-> "none"]

parse_frame(frame) ==
    LET r == ParseFields(frame)
    IN IF r.kind = "reading" THEN r ELSE None

\* The filter before logging: len(epc) >= 8 in the local reader,
\* len(epc) == 8 in the rfid_scripts reader (epc is hex text)
Logged(variant, epc) ==
    IF variant = "local" THEN Len(epc) >= EPC_FILTER_LEN
    ELSE Len(epc) = EPC_FILTER_LEN

\* The inner loop "while b'\x0D\x0A' in buffer": cut the buffer at each first
\* 0D 0A, drop cuts at pos < 10, decode the others and log what passes the
\* filter.  In the rfid_scripts reader an IndexError leaves the loop (raised).
RECURSIVE ProcessBuffer(_, _, _)
ProcessBuffer(variant, buffer, out) ==
    LET pos == FindTrailer(buffer)
        frame == PySlice(buffer, 0, pos + 2)
        rest == PyFrom(buffer, pos + 2)
        r == IF variant = "local" THEN parse_frame(frame) ELSE ParseFields(frame)
    IN IF pos = -1 THEN [buffer |-> buffer, out |-> out, raised |-> FALSE]
       ELSE IF pos < MIN_FRAME_POS THEN ProcessBuffer(variant, rest, out)
       ELSE IF r.kind = "error" /\ variant = "scripts"
            THEN [buffer |-> rest, out |-> out, raised |-> TRUE]
       ELSE IF r.kind = "reading" /\ Logged(variant, r.epc)
            THEN ProcessBuffer(variant, rest,
                               Append(out, [epc |-> r.epc,
                                            antenna |-> r.antenna,
                                            rssi |-> r.rssi]))
       ELSE ProcessBuffer(variant, rest, out)

\* ------------------------------------------------------------- fixed frames
\* bytes.fromhex("C88C000A820000880D0A"): start continuous inventory (0x82)
START_INVENTORY_HEX ==
    <<12, 8, 8, 12, 0, 0, 0, 10, 8, 2, 0, 0, 0, 0, 8, 8, 0, 13, 0, 10>>

\* bytes.fromhex("C88C00088C840D0A"): stop continuous inventory (0x8C)
STOP_INVENTORY_HEX == <<12, 8, 8, 12, 0, 0, 0, 8, 8, 12, 8, 4, 0, 13, 0, 10>>

\* ------------------------------------------------------- the module's frames
\* What the module sends while in continuous inventory is the environment of
\* the reader: inventory frames (0x83) laid out as parse_frame reads them,
\* PC(2) EPC(2 * words) RSSI(2) ANT(1), inside the common frame layout.
PatternByte(i) == <<226, 0, 18, 52, 86, 120, 154, 188, 222, 240, 1, 35>>[i]

\* an EPC of 2 * words bytes; fill "crlf" puts 0D 0A at its start
EpcPattern(words, fill) ==
    [i \in 1..(2 * words) |->
        IF fill = "crlf" /\ i <= 2 THEN TRAILER[i] ELSE PatternByte(i)]

InventoryData(declared_words, epc, rssi_raw, ant_raw) ==
    <<(declared_words * 2048) \div 256, (declared_words * 2048) % 256>>
    \o epc \o <<rssi_raw \div 256, rssi_raw % 256>> \o <<ant_raw>>

ModuleFrame(kind, declared_words, epc, rssi_raw, ant_raw) ==
    [kind |-> kind, words |-> declared_words, epc |-> epc,
     rssi |-> rssi_raw, ant |-> ant_raw,
     bytes |-> EncodeFrame(INVENTORY_RESPONSE,
                           InventoryData(declared_words, epc, rssi_raw, ant_raw))]

\* the sample tag of the repository's documentation: PC 0x3000 (6 words, a
\* 96-bit EPC), RSSI raw 0xFFCE, antenna byte 0x02
ExampleFrame == ModuleFrame("valid", 6, EpcPattern(6, "plain"), 65486, 2)

\* well-formed inventory frames: the PC declares the EPC the frame carries.
\* EPCs of 0, 1 and 2 words lie below and at the readers' length filter.
ShortEpcWords == {0, 1, 2}

\* a frame whose antenna byte is 0D and whose checksum comes out as 0A
\* (RSSI raw 0xFFBE): its last four bytes are 0D 0A 0D 0A
TailFrame == ModuleFrame("valid", 2, EpcPattern(2, "plain"), 65470, 13)

ValidFrames ==
    {ModuleFrame("valid", w, EpcPattern(w, "plain"), 65486, 2) : w \in ShortEpcWords}
    \cup {ModuleFrame("valid", 2, EpcPattern(2, "crlf"), 65486, 2)}
    \cup {TailFrame}

\* a frame too short for the EPC its PC declares (6 words declared, 1 carried)
ShortFrames == {ModuleFrame("short", 6, EpcPattern(1, "plain"), 65486, 2)}

\* s with the byte at 0-based place p replaced by v
Replace(s, p, v) == [i \in 1..Len(s) |-> IF i = p + 1 THEN v ELSE s[i]]

\* a valid frame hit by line noise: exactly one byte between the header and
\* the trailer (length, command, data or checksum) changed to another value
BaseFrame == ModuleFrame("valid", 2, EpcPattern(2, "plain"), 65486, 2)

CorruptFrames ==
    {[BaseFrame EXCEPT !.kind = "corrupt",
                       !.bytes = Replace(BaseFrame.bytes, p,
                                         (At(BaseFrame.bytes, p) + d) % 256)] :
        p \in 2..(Len(BaseFrame.bytes) - 3), d \in {1, 128}}

StreamFrames == ValidFrames \cup ShortFrames

RECURSIVE SeqsUpTo(_, _)
SeqsUpTo(S, n) ==
    IF n = 0 THEN {<<>>}
    ELSE LET shorter == SeqsUpTo(S, n - 1)
         IN shorter \cup {Append(q, x) : q \in {t \in shorter : Len(t) = n - 1}, x \in S}

\* the frames that runs of several frames are made of
SeriesFrames == {BaseFrame} \cup ShortFrames

\* bytes on the line that are no frame: two bytes of noise, and the first
\* seven bytes of the sample tag's frame (a frame cut off before its trailer)
NoiseFrame ==
    [kind |-> "noise", words |-> 0, epc |-> <<>>, rssi |-> 0, ant |-> 0,
     bytes |-> <<255, 0>>]

TruncatedFrame ==
    [ExampleFrame EXCEPT !.kind = "truncated",
                         !.bytes = PySlice(ExampleFrame.bytes, 0, 7)]

\* what the module sends during one run: one stream frame, up to MaxFrames
\* series frames, the sample tag alone, one corrupted frame alone, or a
\* valid frame right behind bytes that are no frame
Plans ==
    {<<f>> : f \in StreamFrames}
    \cup SeqsUpTo(SeriesFrames, MaxFrames)
    \cup {<<ExampleFrame>>} \cup {<<c>> : c \in CorruptFrames}
    \cup {<<NoiseFrame, BaseFrame>>, <<TruncatedFrame, BaseFrame>>}

RECURSIVE Concat(_)
Concat(frames) ==
    IF frames = <<>> THEN <<>> ELSE Head(frames).bytes \o Concat(Tail(frames))

\* -------------------------------------------------------------------- state
VARIABLES
    program,    \* which script runs: "local", "scripts", "set_config", "get_config"
    pc,         \* where the script is
    running,    \* local reader: the global the signal handler clears
    JA_PAROU,   \* rfid_scripts reader: the global sair() sets
    written,    \* the frames written to the serial port, in order
    plan,       \* the frames the module sends during this run (environment)
    incoming,   \* bytes of the plan the reader has not read yet
    buffer,     \* the reader's buffer
    sink,       \* the readings logged (log_reading / registrar), in order
    signals,    \* SIGINT / SIGTERM delivered to the reader so far
    fault,      \* the serial port raised an I/O error in the stream loop
    exit_code,  \* <<>> while the reader process lives, then <<its exit status>>
    peer,       \* a configuration script run beside the reader
    config,     \* set_config's argument
    result,     \* what the configuration script returns, per setting
    arg,        \* a pure function's argument
    ret,        \* and its value
    db,         \* cloud API: the collections devices and tokens
    held,       \* cloud API: the access tokens issued so far (the clients' side)
    now,        \* cloud API: the server's clock, in hours
    request,    \* cloud API: the last request served
    response,   \* cloud API: and the answer to it
    cached_readings,      \* agent: self.cached_readings
    cache_file,           \* agent: the content of READINGS_CACHE_FILE
    offline_mode_enabled, \* agent: self.config.offline_mode_enabled
    max_offline_readings, \* agent: self.config.max_offline_readings
    log_lines,  \* agent: the readings appended to the RFID log during the run
    log_pos,    \* agent: how many of them monitor_rfid_log has read
    sync_at,    \* agent: where the heartbeat thread is in sync_cached_readings
    index,      \* agent: the position of the for loop's list iterator
    failed,     \* agent: sync_cached_readings' local list
    syncs,      \* agent: calls of sync_cached_readings so far
    published,  \* agent: the messages basic_publish has put on the queue
    snapshot,   \* agent (history): the cache when the current sync began
    owed,       \* agent (history): readings whose last publish failed
    queue,      \* consumer: the messages waiting on the broker's queue
    delivery,   \* consumer: the message being processed, or none
    settled,    \* consumer: the basic_ack / basic_nack calls made, in order
    influx,     \* consumer: the points written to InfluxDB
    postgres,   \* consumer: devices and epc_registry
    stats       \* consumer: self.stats

vars == <<program, pc, running, JA_PAROU, written, plan, incoming, buffer, sink,
          signals, fault, exit_code, peer, config, result, arg, ret,
          db, held, now, request, response,
          cached_readings, cache_file, offline_mode_enabled, max_offline_readings,
          log_lines, log_pos, sync_at, index, failed, syncs, published, snapshot,
          owed, queue, delivery, settled, influx, postgres, stats>>

readerVars == <<running, JA_PAROU, plan, incoming, buffer, sink,
               signals, fault, exit_code, peer>>
configVars == <<config, result>>
pureVars == <<arg, ret>>
cloudVars == <<db, held, now, request, response>>
agentVars == <<cached_readings, cache_file, offline_mode_enabled,
              max_offline_readings, log_lines, log_pos, sync_at, index, failed,
              syncs, published, snapshot, owed>>
consumerVars == <<queue, delivery, settled, influx, postgres, stats>>
serviceVars == <<agentVars, consumerVars>>

NoValue == [kind |-> "none"]

\* no configuration script runs beside the reader
NoPeer == [script |-> "none", at |-> "idle", todo |-> <<>>]

ReaderIdle ==
    /\ running = TRUE
    /\ JA_PAROU = FALSE
    /\ plan = <<>>
    /\ incoming = <<>>
    /\ buffer = <<>>
    /\ sink = <<>>
    /\ signals = 0
    /\ fault = FALSE
    /\ exit_code = <<>>
    /\ peer = NoPeer

ConfigIdle ==
    /\ config = NoValue
    /\ result = NoValue

PureIdle ==
    /\ arg = NoValue
    /\ ret = NoValue

CloudIdle ==
    /\ db = [devices |-> {}, tokens |-> {}]
    /\ held = {}
    /\ now = 0
    /\ request = [op |-> "none"]
    /\ response = [status |-> 0, detail |-> "", body |-> NoValue]

AgentIdle ==
    /\ cached_readings = <<>>
    /\ cache_file = <<>>
    /\ offline_mode_enabled = TRUE
    /\ max_offline_readings = 1
    /\ log_lines = <<>>
    /\ log_pos = 0
    /\ sync_at = "idle"
    /\ index = 0
    /\ failed = <<>>
    /\ syncs = 0
    /\ published = <<>>
    /\ snapshot = <<>>
    /\ owed = {}

NoStats ==
    [total_processed |-> 0, total_errors |-> 0, by_device |-> <<>>, logged |-> 0]

NoDelivery == [tag |-> 0, active |-> FALSE, body |-> NoValue]

ConsumerIdle ==
    /\ queue = <<>>
    /\ delivery = NoDelivery
    /\ settled = <<>>
    /\ influx = <<>>
    /\ postgres = [devices |-> {}, epc_registry |-> <<>>]
    /\ stats = NoStats

ServiceIdle == AgentIdle /\ ConsumerIdle

\* ------------------------------------------------------------ reader scripts
IsReader == program \in {"local", "scripts"}

ReaderInit ==
    /\ program \in {"local", "scripts"}
    /\ pc = "start"
    /\ running = TRUE
    /\ JA_PAROU = FALSE
    /\ written = <<>>
    /\ plan \in Plans
    /\ incoming = Concat(plan)
    /\ buffer = <<>>
    /\ sink = <<>>
    /\ signals = 0
    /\ fault = FALSE
    /\ exit_code = <<>>
    /\ peer = NoPeer
    /\ ConfigIdle
    /\ PureIdle
    /\ CloudIdle
    /\ ServiceIdle

\* find_serial_port / open_serial (serial.Serial in rfid_scripts): no port
\* or a failed open ends the script with status 1 before anything is written
OpenSerial ==
    /\ IsReader
    /\ pc = "start"
    /\ \E ok \in BOOLEAN :
         /\ pc' = IF ok THEN "open" ELSE "failed"
         /\ exit_code' = IF ok THEN exit_code ELSE <<1>>
    /\ UNCHANGED <<program, cloudVars, serviceVars,
                   written, running, JA_PAROU, plan, incoming, buffer,
                   sink, signals, fault, peer, configVars, pureVars>>

\* start_continuous_inventory(ser).  The local reader has its signal
\* handlers since the start of main; rfid_scripts installs them only after
\* the start frame and the sleep that follows it.
StartInventory ==
    /\ IsReader
    /\ pc = "open"
    /\ written' = Append(written, FromHex(START_INVENTORY_HEX))
    /\ pc' = IF program = "local" THEN "streaming" ELSE "started"
    /\ UNCHANGED <<program, cloudVars, serviceVars, readerVars, configVars, pureVars>>

\* rfid_scripts: signal.signal(SIGINT, sair); signal.signal(SIGTERM, sair)
InstallHandlers ==
    /\ program = "scripts"
    /\ pc = "started"
    /\ pc' = "streaming"
    /\ UNCHANGED <<program, cloudVars, serviceVars,
                   written, readerVars, configVars, pureVars>>

\* One iteration of the stream loop reading the k bytes that are waiting
\* (k = 0: in_waiting is 0 and nothing is read), then the inner loop.
\* rfid_scripts: an exception reaches "except: sair()", which writes the
\* stop frame.
LoopIteration ==
    /\ IsReader
    /\ pc = "streaming"
    /\ IF program = "local" THEN running ELSE ~JA_PAROU
    /\ \E k \in 0..Len(incoming) :
         LET r == ProcessBuffer(program, buffer \o SubSeq(incoming, 1, k), <<>>)
         IN /\ incoming' = PyFrom(incoming, k)
            /\ buffer' = r.buffer
            /\ sink' = sink \o r.out
            /\ IF r.raised
               THEN /\ JA_PAROU' = TRUE
                    /\ written' = Append(written, FromHex(STOP_INVENTORY_HEX))
                    /\ pc' = "stopping"
               ELSE UNCHANGED <<JA_PAROU, written, pc>>
    /\ UNCHANGED <<program, cloudVars, serviceVars,
                   running, plan, signals, fault, exit_code, peer,
                   configVars, pureVars>>

\* The stop frame written on the way out after the port raised: the write
\* is inside a try whose except passes, so it is sent or it is not.
StopAttempts == {<<>>, <<FromHex(STOP_INVENTORY_HEX)>>}

\* An iteration in which the serial port raises (in_waiting / read).
\* local: "except Exception" logs the error and the finally block runs;
\* rfid_scripts: the bare except calls sair().
TransportError ==
    /\ IsReader
    /\ pc = "streaming"
    /\ IF program = "local" THEN running ELSE ~JA_PAROU
    /\ ~fault
    /\ fault' = TRUE
    /\ JA_PAROU' = IF program = "scripts" THEN TRUE ELSE JA_PAROU
    /\ \E stop \in StopAttempts : written' = written \o stop
    /\ pc' = "stopping"
    /\ UNCHANGED <<program, cloudVars, serviceVars,
                   running, plan, incoming, buffer, sink, signals,
                   exit_code, peer, configVars, pureVars>>

\* the handlers with sair() not testing JA_PAROU: every signal after the
\* handlers are installed writes the stop frame
Signal_no_flag ==
    /\ IsReader
    /\ pc \in {"start", "open", "started", "streaming", "stopping"}
    /\ signals < MaxSignals
    /\ signals' = signals + 1
    /\ IF program = "local"
       THEN /\ running' = FALSE
            /\ UNCHANGED <<JA_PAROU, written, pc, exit_code>>
       ELSE IF pc \in {"start", "open", "started"}
       THEN /\ pc' = "killed"
            /\ \E status \in {130, 143} : exit_code' = <<status>>
            /\ UNCHANGED <<running, JA_PAROU, written>>
       ELSE /\ JA_PAROU' = TRUE
            /\ written' = Append(written, FromHex(STOP_INVENTORY_HEX))
            /\ pc' = "stopping"
            /\ UNCHANGED <<running, exit_code>>
    /\ UNCHANGED <<program, cloudVars, serviceVars,
                   plan, incoming, buffer, sink, fault, peer,
                   configVars, pureVars>>

\* SIGINT / SIGTERM.  local: signal_handler clears running.  rfid_scripts:
\* until the handlers are installed the default action ends the process
\* (status 130 for SIGINT, 143 for SIGTERM); afterwards sair() runs, and
\* does nothing when JA_PAROU is already set.
Signal ==
    /\ IsReader
    /\ pc \in {"start", "open", "started", "streaming", "stopping"}
    /\ signals < MaxSignals
    /\ signals' = signals + 1
    /\ IF program = "local"
       THEN /\ running' = FALSE
            /\ UNCHANGED <<JA_PAROU, written, pc, exit_code>>
       ELSE IF pc \in {"start", "open", "started"}
       THEN /\ pc' = "killed"
            /\ \E status \in {130, 143} : exit_code' = <<status>>
            /\ UNCHANGED <<running, JA_PAROU, written>>
       ELSE IF JA_PAROU
       THEN UNCHANGED <<running, JA_PAROU, written, pc, exit_code>>
       ELSE /\ JA_PAROU' = TRUE
            /\ written' = Append(written, FromHex(STOP_INVENTORY_HEX))
            /\ pc' = "stopping"
            /\ UNCHANGED <<running, exit_code>>
    /\ UNCHANGED <<program, cloudVars, serviceVars,
                   plan, incoming, buffer, sink, fault, peer,
                   configVars, pureVars>>

\* the loop leaving on the flag still set: a cleared flag is never acted on
LoopExit_flag_set ==
    /\ program = "local"
    /\ pc = "streaming"
    /\ running
    /\ written' = Append(written, FromHex(STOP_INVENTORY_HEX))
    /\ pc' = "stopping"
    /\ UNCHANGED <<program, cloudVars, serviceVars, readerVars, configVars, pureVars>>

\* local: "while running" fails and the finally block sends the stop frame
LoopExit ==
    /\ program = "local"
    /\ pc = "streaming"
    /\ ~running
    /\ written' = Append(written, FromHex(STOP_INVENTORY_HEX))
    /\ pc' = "stopping"
    /\ UNCHANGED <<program, cloudVars, serviceVars, readerVars, configVars, pureVars>>

\* serial_port.close() / ser.close(), then the GPIO cleanup and the exit:
\* main() returns (local) or sair() ends in sys.exit(0) (rfid_scripts)
CloseSerial ==
    /\ IsReader
    /\ pc = "stopping"
    /\ pc' = "closed"
    /\ exit_code' = <<0>>
    /\ UNCHANGED <<program, cloudVars, serviceVars,
                   written, running, JA_PAROU, plan, incoming, buffer,
                   sink, signals, fault, peer, configVars, pureVars>>

ReaderNext ==
    \/ OpenSerial
    \/ StartInventory
    \/ InstallHandlers
    \/ LoopIteration
    \/ TransportError
    \/ Signal
    \/ LoopExit
    \/ CloseSerial

\* ----------------------------------------------------------- set_config.py
POWER_PREFIX == <<0, 0, 0, 14, 1, 0, 0, 2, 0, 1>>       \* "000E100201"
REGION_PREFIX == <<0, 0, 0, 10, 2, 12, 0, 1>>           \* "000A2C01"
ANTENNA_PREFIX == <<0, 0, 0, 11, 2, 8, 0, 1, 0>>        \* "000B28010"
FREQ_PREFIX == <<0, 0, 0, 12, 1, 4, 0, 1>>              \* "000C1401"
FASTID_PREFIX == <<0, 0, 0, 10, 5, 12>>                 \* "000A5C"

SettingKeys == {"potencia", "regiao", "antenas", "frequencia", "fastid"}

\* the prefixes of a hex text, up to MaxHexLen digits
HexPrefixes(text) == {SubSeq(text, 1, n) : n \in 0..Min(MaxHexLen, Len(text))}

PowerSamples == {4, 5, 20, 30, 35}
RegionSamples == HexPrefixes(<<3, 12, 0, 1>>)
AntennaSamples == {<<0, 1>>, <<0, 15>>, <<15, 15>>, <<1, 15, 15>>}
\* 0 stands for None (hopping): the key is present and falsy
FrequencySamples == {0, 839999, 840000, 915000, 928000, 928001}
FastidSamples == HexPrefixes(<<0, 1, 0, 0>>) \cup {<<0, 0>>}

Given(has, key, samples, default) == IF key \in has THEN samples ELSE {default}

\* the config dicts tried: at most MaxSettings keys present
Configs ==
    UNION {
        {[has |-> has, potencia |-> p, regiao |-> r, antenas |-> a,
          frequencia |-> f, fastid |-> x] :
            p \in Given(has, "potencia", PowerSamples, 0),
            r \in Given(has, "regiao", RegionSamples, <<>>),
            a \in Given(has, "antenas", AntennaSamples, <<>>),
            f \in Given(has, "frequencia", FrequencySamples, 0),
            x \in Given(has, "fastid", FastidSamples, <<>>)} :
        has \in {h \in SUBSET SettingKeys : Cardinality(h) <= MaxSettings}}

\* the response code of a command is the command code plus one (0x02 is
\* answered by 0x03, 0x34 by 0x35, ... in check_config.py)
AckOf(command) == command + 1

\* what ser.read(100) returns after a command: nothing (timeout), the
\* module's acknowledgement, a frame of another command (an inventory frame
\* of a module still streaming), or bytes that do not start with the header
SetResponses(command) ==
    {<<>>, EncodeFrame(AckOf(command), <<1>>),
     EncodeFrame(INVENTORY_RESPONSE, <<1>>), <<0, 0, 0, 0, 0, 0, 0, 0>>}

\* enviar_comando(ser, cmd_hex) of set_config.py with the module answering
\* resp: the frame written (none when bytes.fromhex raises) and the dict
\* returned
enviar_comando_set(cmd_hex, resp) ==
    IF ~FromHexOk(cmd_hex)
    THEN [write |-> <<>>, res |-> [success |-> FALSE, response |-> <<>>]]
    ELSE [write |-> <<FromHex(cmd_hex)>>,
          res |-> IF Len(resp) >= 8 /\ PySlice(resp, 0, 2) = HEADER
                  THEN [success |-> TRUE, response |-> BytesHex(resp)]
                  ELSE [success |-> FALSE, response |-> <<>>]]

NoResults == [k \in {} |-> NoValue]

SetConfigInit ==
    /\ program = "set_config"
    /\ pc = "start"
    /\ written = <<>>
    /\ config \in Configs
    /\ result = NoResults
    /\ ReaderIdle
    /\ PureIdle
    /\ CloudIdle
    /\ ServiceIdle

\* the port search and serial.Serial(...): on failure the script returns
\* {"error": ...} with nothing written
SetConfigOpen ==
    /\ program = "set_config"
    /\ pc = "start"
    /\ \E ok \in BOOLEAN : pc' = IF ok THEN "potencia" ELSE "failed"
    /\ UNCHANGED <<program, cloudVars, serviceVars,
                   written, readerVars, configVars, pureVars>>

\* one "if key in config" block: send cmd_hex and keep the answer under key
SendSetting(key, command, cmd_hex, next) ==
    \E resp \in SetResponses(command) :
        LET sent == enviar_comando_set(cmd_hex, resp)
        IN /\ written' = written \o sent.write
           /\ result' = (key :> sent.res) @@ result
           /\ pc' = next
           /\ UNCHANGED <<program, cloudVars, serviceVars,
                          config, readerVars, pureVars>>

SkipSetting(next) ==
    /\ pc' = next
    /\ UNCHANGED <<program, cloudVars, serviceVars,
                   written, readerVars, configVars, pureVars>>

\* the power frame with the write-power field left out
PowerFrameHex_one_field(potencia) ==
    LET dbm == IF POT_MIN <= potencia /\ potencia <= POT_MAX
               THEN potencia ELSE POT_DEFAULT
    IN BuildCommand(POWER_PREFIX \o FormatHex(dbm * 100, 4))

\* the power frame with the power in tenths of a dBm
PowerFrameHex_tenths(potencia) ==
    LET dbm == IF POT_MIN <= potencia /\ potencia <= POT_MAX
               THEN potencia ELSE POT_DEFAULT
        pot_hex == FormatHex(dbm * 10, 4)
    IN BuildCommand(POWER_PREFIX \o pot_hex \o pot_hex)

\* 1) Potencia (CMD 0x10): out of 5..30 falls back to 20
PowerFrameHex(potencia) ==
    LET dbm == IF POT_MIN <= potencia /\ potencia <= POT_MAX
               THEN potencia ELSE POT_DEFAULT
        pot_hex == FormatHex(dbm * 100, 4)
    IN BuildCommand(POWER_PREFIX \o pot_hex \o pot_hex)

SetPotencia ==
    /\ program = "set_config"
    /\ pc = "potencia"
    /\ IF "potencia" \in config.has
       THEN SendSetting("potencia", 16, PowerFrameHex(config.potencia), "regiao")
       ELSE SkipSetting("regiao")

\* 2) Regiao (CMD 0x2C): the text is pasted as given
RegionFrameHex(regiao_hex) == BuildCommand(REGION_PREFIX \o regiao_hex)

SetRegiao ==
    /\ program = "set_config"
    /\ pc = "regiao"
    /\ IF "regiao" \in config.has
       THEN SendSetting("regiao", 44, RegionFrameHex(config.regiao), "antenas")
       ELSE SkipSetting("antenas")

\* 3) Antenas (CMD 0x28): f"000B28010{ant_mask:02X}"
AntennaFrameHex(antenas) ==
    BuildCommand(ANTENNA_PREFIX \o FormatHex(IntHex(antenas), 2))

SetAntenas ==
    /\ program = "set_config"
    /\ pc = "antenas"
    /\ IF "antenas" \in config.has
       THEN SendSetting("antenas", 40, AntennaFrameHex(config.antenas), "frequencia")
       ELSE SkipSetting("frequencia")

\* 4) Frequencia fixa (CMD 0x14): only for a truthy value in 840000..928000
FrequencyFrameHex(freq) ==
    LET b0 == freq % 256
        b1 == (freq \div 256) % 256
        b2 == (freq \div 65536) % 256
    IN BuildCommand(FREQ_PREFIX \o FormatHex(b2, 2) \o FormatHex(b1, 2)
                    \o FormatHex(b0, 2))

SetFrequencia ==
    /\ program = "set_config"
    /\ pc = "frequencia"
    /\ IF /\ "frequencia" \in config.has
          /\ config.frequencia # 0
          /\ FREQ_MIN <= config.frequencia
          /\ config.frequencia <= FREQ_MAX
       THEN SendSetting("frequencia", 20, FrequencyFrameHex(config.frequencia), "fastid")
       ELSE SkipSetting("fastid")

\* 5) FastID (CMD 0x5C): the text is pasted as given, then "00"
FastidFrameHex(fastid_val) == BuildCommand(FASTID_PREFIX \o fastid_val \o <<0, 0>>)

SetFastid ==
    /\ program = "set_config"
    /\ pc = "fastid"
    /\ IF "fastid" \in config.has
       THEN SendSetting("fastid", 92, FastidFrameHex(config.fastid), "finish")
       ELSE SkipSetting("finish")

\* the stop frame, ser.close() and the return
SetConfigFinish ==
    /\ program = "set_config"
    /\ pc = "finish"
    /\ written' = Append(written, FromHex(STOP_INVENTORY_HEX))
    /\ pc' = "done"
    /\ UNCHANGED <<program, cloudVars, serviceVars, readerVars, configVars, pureVars>>

SetConfigNext ==
    \/ SetConfigOpen
    \/ SetPotencia
    \/ SetRegiao
    \/ SetAntenas
    \/ SetFrequencia
    \/ SetFastid
    \/ SetConfigFinish

\* --------------------------------------------------------- check_config.py
\* the firmware request carrying the temperature request's checksum (3C)
GET_FIRMWARE_HEX_bad_bcc == <<12, 8, 8, 12, 0, 0, 0, 8, 0, 2, 3, 12, 0, 13, 0, 10>>
GET_FIRMWARE_HEX == <<12, 8, 8, 12, 0, 0, 0, 8, 0, 2, 0, 10, 0, 13, 0, 10>>
GET_TEMPERATURE_HEX == <<12, 8, 8, 12, 0, 0, 0, 8, 3, 4, 3, 12, 0, 13, 0, 10>>
GET_POWER_HEX == <<12, 8, 8, 12, 0, 0, 0, 8, 1, 2, 1, 10, 0, 13, 0, 10>>
\* "C88C0008 2E260D0A" and "C88C0008 2A220D0A" hold a blank
GET_REGION_HEX ==
    <<12, 8, 8, 12, 0, 0, 0, 8, HexSpace, 2, 14, 2, 6, 0, 13, 0, 10>>
GET_ANTENNAS_HEX ==
    <<12, 8, 8, 12, 0, 0, 0, 8, HexSpace, 2, 10, 2, 2, 0, 13, 0, 10>>
GET_FASTID_HEX ==
    <<12, 8, 8, 12, 0, 0, 0, 10, 5, 14, 0, 0, 0, 0, 5, 4, 0, 13, 0, 10>>

\* REGIOES_MAP keys ("01", "02", ... as hex text) and ANTENNAS_MAP keys
REGIOES_MAP_KEYS ==
    {<<0, 1>>, <<0, 2>>, <<0, 4>>, <<0, 8>>, <<1, 6>>, <<3, 2>>, <<3, 12>>,
     <<3, 13>>, <<3, 14>>, <<4, 0>>, <<4, 1>>, <<4, 3>>, <<4, 5>>}
ANTENNAS_MAP_KEYS == {1, 2, 4, 8, 15}

\* what ser.read(100) returns after a get: nothing, the expected response
\* with one of two payloads, or a frame of another command
GetResponses(expected) ==
    {<<>>,
     EncodeFrame(expected, <<0, 60, 1, 1, 11, 184>>),
     EncodeFrame(expected, <<0, 0, 2, 1, 0, 0>>),
     EncodeFrame(expected + 1, <<0, 60, 1, 1, 11, 184>>)}

\* enviar_comando(ser, cmd_hex, cmd_esperado_resp) of check_config.py: the
\* frame written and the response returned (ok = FALSE stands for None)
enviar_comando_get(cmd_hex, cmd_esperado_resp, resp) ==
    IF ~FromHexOk(cmd_hex)
    THEN [write |-> <<>>, ok |-> FALSE, resp |-> <<>>]
    ELSE [write |-> <<FromHex(cmd_hex)>>,
          ok |-> /\ Len(resp) >= 8
                 /\ PySlice(resp, 0, 2) = HEADER
                 /\ At(resp, 4) = cmd_esperado_resp,
          resp |-> resp]

\* decodificar_firmware: f"v{v1}.{v2:02d}.{v3}" kept as its three numbers
DecodeFirmware(r) ==
    IF r.ok /\ Len(r.resp) >= 10
    THEN [kind |-> "firmware", v1 |-> At(r.resp, 7), v2 |-> At(r.resp, 8),
          v3 |-> At(r.resp, 9)]
    ELSE NoValue

\* decodificar_temperatura, in hundredths of a degree
DecodeTemperature(r) ==
    IF r.ok /\ Len(r.resp) >= 8
    THEN LET temp_raw_val == At(r.resp, 6) * 256 + At(r.resp, 7)
         IN [kind |-> "temperatura",
             centi |-> IF temp_raw_val >= 32768
                       THEN -(65536 - temp_raw_val) ELSE temp_raw_val]
    ELSE NoValue

\* decodificar_potencia, in hundredths of a dBm
DecodePower(r) ==
    IF r.ok /\ Len(r.resp) >= 14
    THEN [kind |-> "potencia", centi |-> At(r.resp, 9) * 256 + At(r.resp, 10)]
    ELSE NoValue

\* decodificar_regiao with a region byte of 0 taken as no region
DecodeRegion_zero_is_none(r) ==
    IF r.ok /\ Len(r.resp) >= 7 /\ At(r.resp, 6) # 0
    THEN LET regiao_hex == FormatHex(At(r.resp, 6), 2)
         IN [kind |-> "regiao", regiao |-> regiao_hex,
             known |-> regiao_hex \in REGIOES_MAP_KEYS]
    ELSE NoValue

\* decodificar_regiao
DecodeRegion(r) ==
    IF r.ok /\ Len(r.resp) >= 7
    THEN LET regiao_hex == FormatHex(At(r.resp, 6), 2)
         IN [kind |-> "regiao", regiao |-> regiao_hex,
             known |-> regiao_hex \in REGIOES_MAP_KEYS]
    ELSE NoValue

\* decodificar_antenas
DecodeAntennas(r) ==
    IF r.ok /\ Len(r.resp) >= 9
    THEN [kind |-> "antenas", antenas |-> At(r.resp, 7),
          known |-> At(r.resp, 7) \in ANTENNAS_MAP_KEYS]
    ELSE NoValue

\* decodificar_fastid without the test of the status byte
DecodeFastid_no_status(r) ==
    IF r.ok /\ Len(r.resp) >= 9
    THEN [kind |-> "fastid", ligado |-> At(r.resp, 8) = 1]
    ELSE NoValue

\* decodificar_fastid: "Ligado" / "Desligado" only when resp[7] is 0x01
DecodeFastid(r) ==
    IF r.ok /\ Len(r.resp) >= 9 /\ At(r.resp, 7) = 1
    THEN [kind |-> "fastid", ligado |-> At(r.resp, 8) = 1]
    ELSE NoValue

GetConfigInit ==
    /\ program = "get_config"
    /\ pc = "start"
    /\ written = <<>>
    /\ config = NoValue
    /\ result = NoResults
    /\ ReaderIdle
    /\ PureIdle
    /\ CloudIdle
    /\ ServiceIdle

GetConfigOpen ==
    /\ program = "get_config"
    /\ pc = "start"
    /\ \E ok \in BOOLEAN : pc' = IF ok THEN "firmware" ELSE "failed"
    /\ UNCHANGED <<program, cloudVars, serviceVars,
                   written, readerVars, configVars, pureVars>>

\* one decodificar_x(ser) call and the "if value" that stores it
GetSetting(at, key, cmd_hex, expected, next) ==
    /\ program = "get_config"
    /\ pc = at
    /\ \E resp \in GetResponses(expected) :
         LET r == enviar_comando_get(cmd_hex, expected, resp)
             value == CASE key = "firmware" -> DecodeFirmware(r)
                        [] key = "temperatura" -> DecodeTemperature(r)
                        [] key = "potencia" -> DecodePower(r)
                        [] key = "regiao" -> DecodeRegion(r)
                        [] key = "antenas" -> DecodeAntennas(r)
                        [] key = "fastid" -> DecodeFastid(r)
         IN /\ written' = written \o r.write
            /\ result' = IF value = NoValue THEN result
                         ELSE (key :> value) @@ result
    /\ pc' = next
    /\ UNCHANGED <<program, cloudVars, serviceVars, config, readerVars, pureVars>>

GetFirmware == GetSetting("firmware", "firmware", GET_FIRMWARE_HEX, 3, "temperatura")
GetTemperature ==
    GetSetting("temperatura", "temperatura", GET_TEMPERATURE_HEX, 53, "potencia")
GetPower == GetSetting("potencia", "potencia", GET_POWER_HEX, 19, "regiao")
GetRegion == GetSetting("regiao", "regiao", GET_REGION_HEX, 47, "antenas")
GetAntennas == GetSetting("antenas", "antenas", GET_ANTENNAS_HEX, 43, "fastid")
GetFastid == GetSetting("fastid", "fastid", GET_FASTID_HEX, 95, "finish")

GetConfigFinish ==
    /\ program = "get_config"
    /\ pc = "finish"
    /\ written' = Append(written, FromHex(STOP_INVENTORY_HEX))
    /\ pc' = "done"
    /\ UNCHANGED <<program, cloudVars, serviceVars, readerVars, configVars, pureVars>>

GetConfigNext ==
    \/ GetConfigOpen
    \/ GetFirmware
    \/ GetTemperature
    \/ GetPower
    \/ GetRegion
    \/ GetAntennas
    \/ GetFastid
    \/ GetConfigFinish

\* ------------------------------- a configuration script beside the reader
\* services/backend/server.py starts check_config.py / set_config.py as a
\* subprocess on request, whatever the reader is doing; the scripts open the
\* same port with serial.Serial(ports[0], 115200, timeout=1.0), which takes
\* no lock.  The peer is such a run, reduced to what it does to the port.
READ_SIZE == 100

\* the requests of get_config, in its order
GetConfigFrames ==
    <<GET_FIRMWARE_HEX, GET_TEMPERATURE_HEX, GET_POWER_HEX, GET_REGION_HEX,
      GET_ANTENNAS_HEX, GET_FASTID_HEX>>

\* the frames of set_config for the config of its docstring: potencia 20,
\* regiao "3C", antenas "0F", frequencia None, fastid "01"
ExampleConfigFrames ==
    <<PowerFrameHex(20), RegionFrameHex(<<3, 12>>), AntennaFrameHex(<<0, 15>>),
      FastidFrameHex(<<0, 1>>)>>

Peers ==
    {[script |-> "get_config", at |-> "idle", todo |-> GetConfigFrames],
     [script |-> "set_config", at |-> "idle", todo |-> ExampleConfigFrames]}

\* what a read or a flush by the peer takes of the bytes sent for the
\* reader: nothing (none has arrived) or all of them, up to limit
Taken(limit) == {0, Min(limit, Len(incoming))}

\* serial.Serial(...) and ser.reset_input_buffer(): the open succeeds while
\* the reader holds the port, and the flush discards what has arrived
PeerOpen ==
    /\ peer.script # "none"
    /\ peer.at = "idle"
    /\ \E ok \in BOOLEAN :
         IF ok
         THEN /\ peer' = [peer EXCEPT !.at = "sending"]
              /\ \E k \in Taken(Len(incoming)) : incoming' = PyFrom(incoming, k)
         ELSE /\ peer' = [peer EXCEPT !.at = "failed"]
              /\ UNCHANGED incoming
    /\ UNCHANGED <<program, cloudVars, serviceVars,
                   pc, written, running, JA_PAROU, plan, buffer, sink,
                   signals, fault, exit_code, configVars, pureVars>>

\* enviar_comando: bytes.fromhex, ser.write, ser.read(100), which takes
\* bytes the module sent for the reader
PeerSend ==
    /\ peer.at = "sending"
    /\ peer.todo # <<>>
    /\ peer' = [peer EXCEPT !.todo = Tail(peer.todo)]
    /\ IF FromHexOk(Head(peer.todo))
       THEN /\ written' = Append(written, FromHex(Head(peer.todo)))
            /\ \E k \in Taken(READ_SIZE) : incoming' = PyFrom(incoming, k)
       ELSE UNCHANGED <<written, incoming>>
    /\ UNCHANGED <<program, cloudVars, serviceVars,
                   pc, running, JA_PAROU, plan, buffer, sink,
                   signals, fault, exit_code, configVars, pureVars>>

\* the stop frame both scripts write before ser.close()
PeerFinish ==
    /\ peer.at = "sending"
    /\ peer.todo = <<>>
    /\ peer' = [peer EXCEPT !.at = "done"]
    /\ written' = Append(written, FromHex(STOP_INVENTORY_HEX))
    /\ UNCHANGED <<program, cloudVars, serviceVars,
                   pc, running, JA_PAROU, plan, incoming, buffer, sink,
                   signals, fault, exit_code, configVars, pureVars>>

PeerNext == PeerOpen \/ PeerSend \/ PeerFinish

\* a reader and a configuration script started by the backend, interleaved
SharedInit ==
    /\ program \in {"local", "scripts"}
    /\ pc = "start"
    /\ running = TRUE
    /\ JA_PAROU = FALSE
    /\ written = <<>>
    /\ plan \in {<<>>, <<BaseFrame>>}
    /\ incoming = Concat(plan)
    /\ buffer = <<>>
    /\ sink = <<>>
    /\ signals = 0
    /\ fault = FALSE
    /\ exit_code = <<>>
    /\ peer \in Peers
    /\ ConfigIdle
    /\ PureIdle
    /\ CloudIdle
    /\ ServiceIdle

SharedNext == ReaderNext \/ PeerNext

SpecShared == SharedInit /\ [][SharedNext]_vars

\* ------------------------------------------- parse_frame as a pure function
\* Inventory frames over every high byte of the RSSI field (with low bytes
\* 00, 01, CE, FF) and over every antenna byte, each decoded once by
\* parse_frame; and the RSSI conversion alone on every 16-bit value.
RssiFrameSamples == {hi * 256 + lo : hi \in 0..255, lo \in {0, 1, 206, 255}}

ParseInputs ==
    {ModuleFrame("valid", 2, EpcPattern(2, "plain"), rssi_raw, 2) :
        rssi_raw \in RssiFrameSamples}
    \cup {ModuleFrame("valid", 2, EpcPattern(2, "plain"), 65486, ant_raw) :
        ant_raw \in 0..255}
    \cup {ExampleFrame}

RssiInputs == {[kind |-> "rssi_raw", rssi |-> rssi_raw] : rssi_raw \in 0..65535}

ParseInit ==
    /\ program = "parse_frame"
    /\ pc = "call"
    /\ written = <<>>
    /\ arg \in ParseInputs \cup RssiInputs
    /\ ret = NoValue
    /\ ReaderIdle
    /\ ConfigIdle
    /\ CloudIdle
    /\ ServiceIdle

\* parse_frame(frame)
ApplyParse ==
    /\ program = "parse_frame"
    /\ pc = "call"
    /\ arg.kind = "valid"
    /\ ret' = parse_frame(arg.bytes)
    /\ pc' = "return"
    /\ UNCHANGED <<program, cloudVars, serviceVars,
                   written, arg, readerVars, configVars>>

\* the RSSI line of parse_frame on its own
ApplyRssi ==
    /\ program = "parse_frame"
    /\ pc = "call"
    /\ arg.kind = "rssi_raw"
    /\ ret' = [kind |-> "rssi", rssi |-> RssiTenths(arg.rssi)]
    /\ pc' = "return"
    /\ UNCHANGED <<program, cloudVars, serviceVars,
                   written, arg, readerVars, configVars>>

ParseNext == ApplyParse \/ ApplyRssi

SpecParse == ParseInit /\ [][ParseNext]_vars

\* ------------------------------ check_config's decoding as pure functions
\* What ser.read(100) hands to one request of check_config.py, and what the
\* request makes of it.  fastid: every status byte with a few value bytes;
\* regiao: every region byte; call: the firmware request with one to three
\* frames in the reply.
ByteSamples == {0, 1, 2, 255}

\* a reply that is no frame: it does not start with the header
NoiseReply == <<0, 0, 0, 0, 0, 0, 0, 0>>

FirmwareReply == EncodeFrame(3, <<0, 0, 2, 1, 0>>)

\* a firmware response hit by noise: its checksum byte is off by one
BadReply ==
    Replace(FirmwareReply, Len(FirmwareReply) - 3,
            (At(FirmwareReply, Len(FirmwareReply) - 3) + 1) % 256)
OtherReply == EncodeFrame(53, <<0, 11, 184>>)

FastidInputs ==
    {[kind |-> "fastid", resp |-> EncodeFrame(95, <<0, 0, st, val>>)] :
        st \in 0..255, val \in ByteSamples}
    \cup {[kind |-> "fastid", resp |-> r] :
            r \in {<<>>, NoiseReply, EncodeFrame(95, <<>>),
                   EncodeFrame(93, <<0, 0, 1, 1>>)}}

RegionInputs ==
    {[kind |-> "regiao", resp |-> EncodeFrame(47, <<d, b>>)] :
        d \in {0, 1}, b \in 0..255}
    \cup {[kind |-> "regiao", resp |-> r] :
            r \in {<<>>, NoiseReply, EncodeFrame(45, <<0, 60>>)}}

CallInputs ==
    {[kind |-> "call", resp |-> r] :
        r \in {<<>>, FirmwareReply, OtherReply, NoiseReply,
               OtherReply \o FirmwareReply,
               NoiseReply \o FirmwareReply,
               NoiseReply \o NoiseReply \o FirmwareReply,
               NoiseReply \o NoiseReply \o NoiseReply \o FirmwareReply,
               BadReply \o FirmwareReply,
               BadReply \o BadReply \o FirmwareReply,
               BadReply \o BadReply \o BadReply \o FirmwareReply}}

DecodeInit ==
    /\ program = "check_config"
    /\ pc = "call"
    /\ written = <<>>
    /\ arg \in FastidInputs \cup RegionInputs \cup CallInputs
    /\ ret = NoValue
    /\ ReaderIdle
    /\ ConfigIdle
    /\ CloudIdle
    /\ ServiceIdle

\* decodificar_fastid(ser) with the module answering arg.resp
ApplyFastid ==
    /\ program = "check_config"
    /\ pc = "call"
    /\ arg.kind = "fastid"
    /\ ret' = DecodeFastid(enviar_comando_get(GET_FASTID_HEX, 95, arg.resp))
    /\ pc' = "return"
    /\ UNCHANGED <<program, cloudVars, serviceVars,
                   written, arg, readerVars, configVars>>

\* decodificar_regiao(ser) with the module answering arg.resp
ApplyRegion ==
    /\ program = "check_config"
    /\ pc = "call"
    /\ arg.kind = "regiao"
    /\ ret' = DecodeRegion(enviar_comando_get(GET_REGION_HEX, 47, arg.resp))
    /\ pc' = "return"
    /\ UNCHANGED <<program, cloudVars, serviceVars,
                   written, arg, readerVars, configVars>>

\* enviar_comando(ser, "C88C0008020A0D0A", 0x03) with arg.resp read
ApplyCall ==
    /\ program = "check_config"
    /\ pc = "call"
    /\ arg.kind = "call"
    /\ ret' = enviar_comando_get(GET_FIRMWARE_HEX, 3, arg.resp)
    /\ pc' = "return"
    /\ UNCHANGED <<program, cloudVars, serviceVars,
                   written, arg, readerVars, configVars>>

DecodeNext == ApplyFastid \/ ApplyRegion \/ ApplyCall

SpecDecode == DecodeInit /\ [][DecodeNext]_vars

\* -------------------------------------- the power frame as a pure function
\* int(config['potencia']) over MaxPower + 1 values, each turned into the
\* frame set_config would send
MaxPower == 99

PowerInit ==
    /\ program = "PowerFrameHex"
    /\ pc = "call"
    /\ written = <<>>
    /\ arg \in {[kind |-> "potencia", potencia |-> dbm] : dbm \in 0..MaxPower}
    /\ ret = NoValue
    /\ ReaderIdle
    /\ ConfigIdle
    /\ CloudIdle
    /\ ServiceIdle

ApplyPowerFrame ==
    /\ program = "PowerFrameHex"
    /\ pc = "call"
    /\ ret' = [kind |-> "frame", bytes |-> FromHex(PowerFrameHex(arg.potencia))]
    /\ pc' = "return"
    /\ UNCHANGED <<program, cloudVars, serviceVars,
                   written, arg, readerVars, configVars>>

SpecPower == PowerInit /\ [][ApplyPowerFrame]_vars

\* ------------------------------------- the readers under a fair scheduler
\* the stream loop comes back to "while running" after each iteration, and
\* the finally block / sair() runs through to the exit
SpecLive ==
    /\ ReaderInit
    /\ [][ReaderNext]_vars
    /\ WF_vars(LoopExit)
    /\ WF_vars(CloseSerial)

\* ------------------------------------------------------------ the cloud API
\* src/cloud/api/main.py: the device registry behind the HTTP endpoints.
\* A MAC address is a text, a sequence of character codes; the clock counts
\* hours.
MaxClock == 24
MaxTokens == 1
MaxReadings == 1

JWT_EXPIRATION_HOURS == 24

\* str.upper() on the letters a..z
upper(text) ==
    [i \in 1..Len(text) |-> IF text[i] \in 97..122 THEN text[i] - 32 ELSE text[i]]

\* sha256(f"rfid-device-{mac_address}").hexdigest()[:16]: a digest of the
\* text as given, different for different texts
generate_device_id(mac_address) == [sha256 |-> <<"rfid-device-", mac_address>>]

\* "A1", "a1" and "B2"
MacSamples == {<<65, 49>>, <<97, 49>>, <<66, 50>>}

DeviceIds == {generate_device_id(mac) : mac \in MacSamples}

\* create_jwt_token: the signed payload
create_jwt_token(device_id, mac_address) ==
    [device_id |-> device_id, mac_address |-> mac_address,
     iat |-> now, exp |-> now + JWT_EXPIRATION_HOURS, signed |-> TRUE]

\* a token not signed with JWT_SECRET
ForgedToken ==
    [device_id |-> generate_device_id(<<65, 49>>), mac_address |-> <<65, 49>>,
     iat |-> 0, exp |-> MaxClock + JWT_EXPIRATION_HOURS, signed |-> FALSE]

\* the document db.tokens keeps for a token
TokenDoc(token) ==
    [device_id |-> token.device_id, token_hash |-> token,
     created_at |-> token.iat, expires_at |-> token.exp]

Reply(status, detail, body) == [status |-> status, detail |-> detail, body |-> body]

\* db.devices.find({"device_id": device_id})
FindDevices(device_id) == {d \in db.devices : d.device_id = device_id}

\* verify_device_token without the is_revoked test
verify_device_token_no_revoked(token) ==
    IF ~token.signed THEN Reply(401, "Invalid token", NoValue)
    ELSE IF token.exp <= now THEN Reply(401, "Token expired", NoValue)
    ELSE IF FindDevices(token.device_id) = {}
    THEN Reply(401, "Device not found", NoValue)
    ELSE Reply(200, "", token)

\* verify_device_token: jwt.decode, then the device must exist and not be
\* revoked; every failure is a 401
verify_device_token(token) ==
    IF ~token.signed THEN Reply(401, "Invalid token", NoValue)
    ELSE IF token.exp <= now THEN Reply(401, "Token expired", NoValue)
    ELSE IF FindDevices(token.device_id) = {}
    THEN Reply(401, "Device not found", NoValue)
    ELSE IF \E d \in FindDevices(token.device_id) : d.is_revoked
    THEN Reply(401, "Device has been revoked", NoValue)
    ELSE Reply(200, "", token)

\* verify_admin_key
verify_admin_key(key_ok) ==
    IF key_ok THEN Reply(200, "", NoValue)
    ELSE Reply(403, "Invalid admin API key", NoValue)

CloudInit ==
    /\ program = "cloud"
    /\ pc = "serving"
    /\ written = <<>>
    /\ ReaderIdle
    /\ ConfigIdle
    /\ PureIdle
    /\ CloudIdle
    /\ ServiceIdle

Serving == program = "cloud" /\ pc = "serving"

\* POST /api/admin/devices/register
register_device ==
    /\ Serving
    /\ \E key_ok \in BOOLEAN, mac_address \in MacSamples :
         LET device_id == generate_device_id(mac_address)
             device_doc == [device_id |-> device_id,
                            mac_address |-> upper(mac_address),
                            status |-> "registered",
                            last_seen |-> <<>>,
                            is_revoked |-> FALSE,
                            total_readings |-> 0]
         IN /\ request' = [op |-> "register", key_ok |-> key_ok,
                           mac_address |-> mac_address]
            /\ IF ~key_ok
               THEN /\ response' = verify_admin_key(key_ok)
                    /\ db' = db
               ELSE IF FindDevices(device_id) # {}
               THEN /\ response' = Reply(400, "Device already registered", NoValue)
                    /\ db' = db
               \* insert_one against the unique index on mac_address:
               \* DuplicateKeyError is not caught
               ELSE IF \E d \in db.devices : d.mac_address = device_doc.mac_address
               THEN /\ response' = Reply(500, "Internal Server Error", NoValue)
                    /\ db' = db
               ELSE /\ response' = Reply(200, "", device_doc)
                    /\ db' = [db EXCEPT !.devices = @ \cup {device_doc}]
    /\ UNCHANGED <<program, pc, written, serviceVars, readerVars, configVars,
                   pureVars, held, now>>

\* POST /api/devices/authenticate
authenticate_device ==
    /\ Serving
    /\ \E device_id \in DeviceIds, mac_address \in MacSamples :
         LET found == {d \in db.devices : /\ d.device_id = device_id
                                          /\ d.mac_address = mac_address}
             token == create_jwt_token(device_id, mac_address)
         IN /\ request' = [op |-> "authenticate", device_id |-> device_id,
                           mac_address |-> mac_address]
            /\ IF found = {}
               THEN /\ response' = Reply(401, "Device not registered or MAC mismatch",
                                         NoValue)
                    /\ UNCHANGED <<db, held>>
               ELSE IF \E d \in found : d.is_revoked
               THEN /\ response' = Reply(401, "Device has been revoked", NoValue)
                    /\ UNCHANGED <<db, held>>
               ELSE /\ Cardinality(held \cup {token}) <= MaxTokens
                    /\ response' = Reply(200, "", token)
                    /\ held' = held \cup {token}
                    /\ db' = [devices |->
                                 {IF d.device_id = device_id
                                  THEN [d EXCEPT !.last_seen = <<now>>,
                                                 !.status = "online"]
                                  ELSE d : d \in db.devices},
                              tokens |-> db.tokens \cup {TokenDoc(token)}]
    /\ UNCHANGED <<program, pc, written, serviceVars, readerVars, configVars,
                   pureVars, now>>

\* the tokens a request can bear: one issued before, or one not signed here
Bearers == held \cup {ForgedToken}

\* POST /api/devices/refresh-token
refresh_token ==
    /\ Serving
    /\ \E bearer \in Bearers :
         LET device_info == verify_device_token(bearer)
             token == create_jwt_token(bearer.device_id, bearer.mac_address)
         IN /\ request' = [op |-> "refresh", token |-> bearer]
            /\ IF device_info.status # 200
               THEN /\ response' = device_info
                    /\ UNCHANGED <<db, held>>
               ELSE /\ Cardinality(held \cup {token}) <= MaxTokens
                    /\ response' = Reply(200, "", token)
                    /\ held' = held \cup {token}
                    /\ db' = [db EXCEPT !.tokens = @ \cup {TokenDoc(token)}]
    /\ UNCHANGED <<program, pc, written, serviceVars, readerVars, configVars,
                   pureVars, now>>

\* POST /api/readings with a batch of `received` readings
submit_readings ==
    /\ Serving
    /\ \E bearer \in Bearers, received \in 0..MaxReadings :
         LET device_info == verify_device_token(bearer)
         IN /\ request' = [op |-> "readings", token |-> bearer,
                           received |-> received]
            /\ IF device_info.status # 200
               THEN /\ response' = device_info
                    /\ db' = db
               ELSE /\ \A d \in FindDevices(bearer.device_id) :
                         d.total_readings + received <= MaxReadings
                    /\ response' = Reply(200, "", [status |-> "ok",
                                                    received |-> received])
                    /\ db' = [db EXCEPT !.devices =
                                 {IF d.device_id = bearer.device_id
                                  THEN [d EXCEPT !.last_seen = <<now>>,
                                                 !.total_readings = @ + received]
                                  ELSE d : d \in db.devices}]
    /\ UNCHANGED <<program, pc, written, serviceVars, readerVars, configVars,
                   pureVars, held, now>>

\* the values a heartbeat body gives its device_status field
StatusSamples == {"degraded"}

\* the heartbeat handler reading device_status, so that update_one runs
\* with its filter {"device_id": heartbeat.device_id}
device_heartbeat_updates ==
    /\ Serving
    /\ \E bearer \in Bearers, device_id \in DeviceIds,
          device_status \in StatusSamples :
         LET device_info == verify_device_token(bearer)
         IN /\ request' = [op |-> "heartbeat", token |-> bearer,
                           device_id |-> device_id,
                           device_status |-> device_status]
            /\ IF device_info.status # 200
               THEN /\ response' = device_info
                    /\ db' = db
               ELSE /\ response' = Reply(200, "", [status |-> "ok"])
                    /\ db' = [db EXCEPT !.devices =
                                 {IF d.device_id = device_id
                                  THEN [d EXCEPT !.last_seen = <<now>>,
                                                 !.status = device_status]
                                  ELSE d : d \in db.devices}]
    /\ UNCHANGED <<program, pc, written, serviceVars, readerVars, configVars,
                   pureVars, held, now>>

\* POST /api/heartbeat: the update document reads heartbeat.status, a field
\* DeviceHeartbeat does not have (it has device_status): AttributeError
\* before update_one is called, an unhandled exception, status 500
device_heartbeat ==
    /\ Serving
    /\ \E bearer \in Bearers, device_id \in DeviceIds,
          device_status \in StatusSamples :
         LET device_info == verify_device_token(bearer)
         IN /\ request' = [op |-> "heartbeat", token |-> bearer,
                           device_id |-> device_id,
                           device_status |-> device_status]
            /\ response' = IF device_info.status # 200 THEN device_info
                           ELSE Reply(500, "Internal Server Error", NoValue)
            /\ db' = db
    /\ UNCHANGED <<program, pc, written, serviceVars, readerVars, configVars,
                   pureVars, held, now>>

\* POST /api/admin/devices/{device_id}/revoke
revoke_device ==
    /\ Serving
    /\ \E key_ok \in BOOLEAN, device_id \in DeviceIds :
         /\ request' = [op |-> "revoke", key_ok |-> key_ok, device_id |-> device_id]
         /\ IF ~key_ok
            THEN /\ response' = verify_admin_key(key_ok)
                 /\ db' = db
            \* update_one runs before matched_count is looked at
            ELSE IF FindDevices(device_id) = {}
            THEN /\ response' = Reply(404, "Device not found", NoValue)
                 /\ db' = db
            ELSE /\ response' = Reply(200, "", [status |-> "revoked",
                                                 device_id |-> device_id])
                 /\ db' = [devices |->
                              {IF d.device_id = device_id
                               THEN [d EXCEPT !.is_revoked = TRUE,
                                              !.status = "revoked"]
                               ELSE d : d \in db.devices},
                           tokens |-> {t \in db.tokens : t.device_id # device_id}]
    /\ UNCHANGED <<program, pc, written, serviceVars, readerVars, configVars,
                   pureVars, held, now>>

\* POST /api/admin/devices/{device_id}/reinstate
reinstate_device ==
    /\ Serving
    /\ \E key_ok \in BOOLEAN, device_id \in DeviceIds :
         /\ request' = [op |-> "reinstate", key_ok |-> key_ok,
                        device_id |-> device_id]
         /\ IF ~key_ok
            THEN /\ response' = verify_admin_key(key_ok)
                 /\ db' = db
            ELSE IF FindDevices(device_id) = {}
            THEN /\ response' = Reply(404, "Device not found", NoValue)
                 /\ db' = db
            ELSE /\ response' = Reply(200, "", [status |-> "reinstated",
                                                 device_id |-> device_id])
                 /\ db' = [db EXCEPT !.devices =
                              {IF d.device_id = device_id
                               THEN [d EXCEPT !.is_revoked = FALSE,
                                              !.status = "registered"]
                               ELSE d : d \in db.devices}]
    /\ UNCHANGED <<program, pc, written, serviceVars, readerVars, configVars,
                   pureVars, held, now>>

\* time passes between requests: the life of a token
Advance ==
    /\ Serving
    /\ now + JWT_EXPIRATION_HOURS <= MaxClock
    /\ now' = now + JWT_EXPIRATION_HOURS
    /\ UNCHANGED <<program, pc, written, serviceVars, readerVars, configVars, pureVars,
                   db, held, request, response>>

CloudNext ==
    \/ register_device
    \/ authenticate_device
    \/ refresh_token
    \/ submit_readings
    \/ device_heartbeat
    \/ revoke_device
    \/ reinstate_device
    \/ Advance

SpecCloud == CloudInit /\ [][CloudNext]_vars

\* ---------------------------------------------------------- the device agent
\* src/local/agent/device_agent.py: the offline cache shared by the main
\* thread (monitor_rfid_log) and the heartbeat thread (sync_cached_readings).
\* A reading is an identifier.  One loop iteration, and one publish_reading
\* with the caching it does, is a step; threads switch between steps.
MaxCached == 2
MaxOffline == 2
MaxLog == 1
MaxSyncs == 2

\* the readings READINGS_CACHE_FILE can hold when the agent starts: what an
\* earlier run saved
CacheFiles == {[i \in 1..n |-> i] : n \in 0..MaxCached}

\* the readings the RFID reader logs during the run
LogFiles == {[i \in 1..n |-> MaxCached + i] : n \in 0..MaxLog}

Range(list) == {list[i] : i \in 1..Len(list)}

\* _cache_reading with the eviction taking the newest reading
cache_reading_evict_newest(reading) ==
    IF ~offline_mode_enabled THEN cached_readings
    ELSE IF Len(cached_readings) >= max_offline_readings
    THEN Append(SubSeq(cached_readings, 1, Len(cached_readings) - 1), reading)
    ELSE Append(cached_readings, reading)

\* _cache_reading(reading): the list it leaves in self.cached_readings
cache_reading(reading) ==
    IF ~offline_mode_enabled THEN cached_readings
    ELSE IF Len(cached_readings) >= max_offline_readings
    THEN Append(Tail(cached_readings), reading)
    ELSE Append(cached_readings, reading)

\* the reading _cache_reading evicts with pop(0), as a set
Evicted ==
    IF offline_mode_enabled /\ Len(cached_readings) >= max_offline_readings
    THEN {Head(cached_readings)} ELSE {}

\* _save_cached_readings: the file takes the list, or the write fails and
\* the exception is logged
save_cached_readings(list) == cache_file' \in {cache_file, list}

\* publish_reading(reading): basic_publish puts the message on the queue
\* and True is returned, or it raises (no channel, broker away), the reading
\* goes to _cache_reading and False is returned
publish_reading(reading, ok) ==
    IF ok
    THEN /\ published' = Append(published, reading)
         /\ owed' = owed \ {reading}
         /\ UNCHANGED <<cached_readings, cache_file>>
    ELSE /\ published' = published
         /\ owed' = (owed \ Evicted) \cup {reading}
         /\ cached_readings' = cache_reading(reading)
         /\ IF offline_mode_enabled
            THEN save_cached_readings(cache_reading(reading))
            ELSE cache_file' = cache_file

\* run() up to the start of the two threads: the configuration comes from
\* the cloud, _load_cached_readings reads the file (or fails and logs)
AgentInit ==
    /\ program = "agent"
    /\ pc = "running"
    /\ written = <<>>
    /\ ReaderIdle
    /\ ConfigIdle
    /\ PureIdle
    /\ CloudIdle
    /\ ConsumerIdle
    /\ offline_mode_enabled \in BOOLEAN
    /\ max_offline_readings \in 1..MaxOffline
    /\ cache_file \in {file \in CacheFiles : Len(file) <= max_offline_readings}
    /\ cached_readings \in {<<>>, cache_file}
    /\ log_lines \in LogFiles
    /\ log_pos = 0
    /\ sync_at = "idle"
    /\ index = 0
    /\ failed = <<>>
    /\ syncs = 0
    /\ published = <<>>
    /\ snapshot = <<>>
    /\ owed = Range(cached_readings)

AgentRunning == program = "agent" /\ pc = "running"

\* monitor_rfid_log: one line read from the log, parsed and published
MonitorPublish ==
    /\ AgentRunning
    /\ log_pos < Len(log_lines)
    /\ log_pos' = log_pos + 1
    /\ \E ok \in BOOLEAN : publish_reading(log_lines[log_pos + 1], ok)
    /\ UNCHANGED <<program, pc, written, readerVars, configVars, pureVars,
                   cloudVars, consumerVars, offline_mode_enabled,
                   max_offline_readings, log_lines, sync_at, index, failed,
                   syncs, snapshot>>

\* heartbeat_loop calls sync_cached_readings when the cache is not empty;
\* the function sets failed = [] and starts the for loop
SyncStart ==
    /\ AgentRunning
    /\ sync_at \in {"idle", "returned"}
    /\ syncs < MaxSyncs
    /\ cached_readings # <<>>
    /\ sync_at' = "loop"
    /\ index' = 0
    /\ failed' = <<>>
    /\ syncs' = syncs + 1
    /\ snapshot' = cached_readings
    /\ UNCHANGED <<program, pc, written, readerVars, configVars, pureVars,
                   cloudVars, consumerVars, cached_readings, cache_file,
                   offline_mode_enabled, max_offline_readings, log_lines,
                   log_pos, published, owed>>

\* one iteration of "for reading in self.cached_readings": the list iterator
\* takes the element at its position in the list as it is now
SyncIterate ==
    /\ AgentRunning
    /\ sync_at = "loop"
    /\ index < Len(cached_readings)
    /\ index' = index + 1
    /\ \E ok \in BOOLEAN :
         /\ publish_reading(cached_readings[index + 1], ok)
         /\ failed' = IF ok THEN failed
                      ELSE Append(failed, cached_readings[index + 1])
    /\ UNCHANGED <<program, pc, written, readerVars, configVars, pureVars,
                   cloudVars, consumerVars, offline_mode_enabled,
                   max_offline_readings, log_lines, log_pos, sync_at, syncs,
                   snapshot>>

\* the iterator is past the end of the list: the for loop is left
SyncLoopEnd ==
    /\ AgentRunning
    /\ sync_at = "loop"
    /\ index >= Len(cached_readings)
    /\ sync_at' = "assign"
    /\ UNCHANGED <<program, pc, written, readerVars, configVars, pureVars,
                   cloudVars, consumerVars, cached_readings, cache_file,
                   offline_mode_enabled, max_offline_readings, log_lines,
                   log_pos, index, failed, syncs, published, snapshot, owed>>

\* self.cached_readings = failed; self._save_cached_readings(); return
SyncAssign ==
    /\ AgentRunning
    /\ sync_at = "assign"
    /\ cached_readings' = failed
    /\ save_cached_readings(failed)
    /\ sync_at' = "returned"
    /\ UNCHANGED <<program, pc, written, readerVars, configVars, pureVars,
                   cloudVars, consumerVars, offline_mode_enabled,
                   max_offline_readings, log_lines, log_pos, index, failed,
                   syncs, published, snapshot, owed>>

SyncStep == SyncIterate \/ SyncLoopEnd \/ SyncAssign

AgentNext == MonitorPublish \/ SyncStart \/ SyncIterate \/ SyncLoopEnd \/ SyncAssign

\* the heartbeat thread is scheduled again and again
SpecAgent == AgentInit /\ [][AgentNext]_vars /\ WF_vars(SyncStep)

\* ------------------------------------------------------- the cloud consumer
\* src/rfid-project/services/consumer/consumer.py: process_reading, the
\* callback the channel calls with each delivered message, one at a time.
\* The Prometheus metrics are not part of the state.
MaxMessages == 2
MaxDeliveries == 3
STATS_INTERVAL == 100

\* message bodies: a reading as the agent publishes it, and one json.loads
\* or the field reads raise on
ReadingBody == [kind |-> "reading", mac_address |-> "m1", epc |-> "e1"]
GarbageBody == [kind |-> "garbage"]
Bodies == {ReadingBody, GarbageBody}

\* how the callback's try block goes: the reading was saved, the save
\* returned False, or an exception was raised before the save
Outcomes(body) ==
    IF body.kind = "reading" THEN {"saved", "save_failed"} ELSE {"raised"}

\* process_reading settling with a basic_nack from the except block after
\* the basic_ack
settle_calls_nack_after_ack(outcome) ==
    IF outcome = "saved" THEN <<"ack", "nack">> ELSE <<"nack">>

\* the channel calls process_reading makes for a delivery: basic_ack in the
\* branch where save_to_influxdb returned True, basic_nack(requeue=True) in
\* the else branch and in the except block
settle_calls(outcome) ==
    IF outcome = "saved" THEN <<"ack">> ELSE <<"nack">>

\* update_device_metadata: the upserts and the commit, or an exception,
\* logged, that leaves the tables as they were
update_device_metadata(mac_address, epc, ok) ==
    IF ~ok THEN postgres
    ELSE [devices |-> postgres.devices \cup {mac_address},
          epc_registry |->
              (epc :> (IF epc \in DOMAIN postgres.epc_registry
                       THEN postgres.epc_registry[epc] + 1 ELSE 1))
              @@ postgres.epc_registry]

ConsumerInit ==
    /\ program = "consumer"
    /\ pc = "consuming"
    /\ written = <<>>
    /\ ReaderIdle
    /\ ConfigIdle
    /\ PureIdle
    /\ CloudIdle
    /\ AgentIdle
    /\ queue \in SeqsUpTo(Bodies, MaxMessages)
    /\ delivery = NoDelivery
    /\ settled = <<>>
    /\ influx = <<>>
    /\ postgres = [devices |-> {}, epc_registry |-> <<>>]
    /\ stats \in {[NoStats EXCEPT !.total_processed = n] : n \in {0, STATS_INTERVAL - 1}}

Consuming == program = "consumer" /\ pc = "consuming"

\* the broker delivers the message at the head of the queue under the next
\* delivery tag
Deliver ==
    /\ Consuming
    /\ ~delivery.active
    /\ queue # <<>>
    /\ delivery.tag < MaxDeliveries
    /\ delivery' = [tag |-> delivery.tag + 1, active |-> TRUE, body |-> Head(queue)]
    /\ queue' = Tail(queue)
    /\ UNCHANGED <<program, pc, written, readerVars, configVars, pureVars,
                   cloudVars, agentVars, settled, influx, postgres, stats>>

\* process_reading(ch, method, properties, body); a message nacked with
\* requeue=True goes back to the head of the queue
process_reading ==
    /\ Consuming
    /\ delivery.active
    /\ \E outcome \in Outcomes(delivery.body), metadata_ok \in BOOLEAN :
         LET body == delivery.body
             calls == settle_calls(outcome)
             total == stats.total_processed + 1
         IN /\ settled' = settled \o [i \in 1..Len(calls) |->
                                         [tag |-> delivery.tag, call |-> calls[i]]]
            /\ queue' = IF calls[Len(calls)] = "nack" THEN <<body>> \o queue
                        ELSE queue
            /\ IF outcome = "saved"
               THEN /\ influx' = Append(influx, body)
                    /\ postgres' = update_device_metadata(body.mac_address,
                                                          body.epc, metadata_ok)
                    /\ stats' =
                         [stats EXCEPT
                            !.total_processed = total,
                            !.by_device =
                               (body.mac_address :>
                                  (IF body.mac_address \in DOMAIN stats.by_device
                                   THEN stats.by_device[body.mac_address] + 1
                                   ELSE 1)) @@ stats.by_device,
                            !.logged = IF total % STATS_INTERVAL = 0
                                       THEN @ + 1 ELSE @]
               ELSE /\ metadata_ok
                    /\ stats' = [stats EXCEPT !.total_errors = @ + 1]
                    /\ UNCHANGED <<influx, postgres>>
    /\ delivery' = [delivery EXCEPT !.active = FALSE]
    /\ UNCHANGED <<program, pc, written, readerVars, configVars, pureVars,
                   cloudVars, agentVars>>

ConsumerNext == Deliver \/ process_reading

SpecConsumer == ConsumerInit /\ [][ConsumerNext]_vars

Init == ReaderInit \/ SetConfigInit \/ GetConfigInit

Next == ReaderNext \/ SetConfigNext \/ GetConfigNext

Spec == Init /\ [][Next]_vars

\* =================================================================== claims
\* bytes of the plan the reader has read so far
Consumed == Len(Concat(plan)) - Len(incoming)

\* the log line a module frame's fields stand for
ExpectedReading(f) ==
    [epc |-> BytesHex(f.epc),
     antenna |-> ((f.ant - 1) % 4) + 1,
     rssi |-> IF f.rssi > 32767 THEN f.rssi - 65536 ELSE f.rssi]

RECURSIVE XorBytes(_)
XorBytes(b) == IF b = <<>> THEN 0 ELSE Xor(Head(b), XorBytes(Tail(b)))

\* C1 (as claimed): round trip.  A 0x83 frame encoded from (command, data),
\* here with a 4-byte EPC both readers log, once read whole by the stream
\* loop, is decoded to the reading its data stand for and is consumed whole
\* (nothing of it is left in the buffer) -- also when the data hold 0D 0A.
C1_RoundTrip ==
    (/\ IsReader
     /\ pc = "streaming"
     /\ Len(plan) = 1
     /\ plan[1].kind = "valid"
     /\ Len(plan[1].epc) = 4
     /\ incoming = <<>>)
    => (buffer = <<>> /\ sink = <<ExpectedReading(plan[1])>>)

\* C2 (as claimed): no silent corruption.  A frame with exactly one byte of
\* its length, command, data or checksum changed is rejected: nothing is
\* logged for it.
C2_NoSilentCorruption ==
    (IsReader /\ Len(plan) = 1 /\ plan[1].kind = "corrupt") => sink = <<>>

\* C3: every frame written to the serial port starts with C8 8C, ends with
\* 0D 0A, and its checksum byte is the XOR of the bytes from the length field
\* through the last data byte.
WellFramed(f) ==
    /\ Len(f) >= 8
    /\ SubSeq(f, 1, 2) = <<200, 140>>
    /\ SubSeq(f, Len(f) - 1, Len(f)) = <<13, 10>>
    /\ f[Len(f) - 2] = XorBytes(SubSeq(f, 3, Len(f) - 3))

LengthField(f) == f[3] * 256 + f[4]
DataLength(f) == Len(f) - 8

OneByteTexts ==
    program = "set_config" =>
        /\ "regiao" \in config.has => Len(config.regiao) = 2
        /\ "fastid" \in config.has => Len(config.fastid) = 2

FirmwareRequest == <<200, 140, 0, 8, 2, 10, 13, 10>>

C5_FirmwareRequest ==
    (program = "get_config" /\ pc \notin {"start", "failed", "firmware"})
    => (/\ Len(written) >= 1
        /\ written[1] = FirmwareRequest
        /\ EncodeFrame(2, <<>>) = FirmwareRequest)

C5_Witness ==
    program = "get_config" /\ pc = "temperatura" /\ Len(written) = 1

\* C6 (as claimed): buffering invariance.  However the bytes of a valid
\* inventory frame are spread over reads, nothing is logged before the frame
\* is complete, and once it is complete what is logged is what the delivery
\* of the whole frame in one read logs.
C6_BufferingInvariance ==
    (/\ IsReader
     /\ pc = "streaming"
     /\ Len(plan) >= 1
     /\ plan[1].kind = "valid")
    => (/\ Consumed < Len(plan[1].bytes) => sink = <<>>
        /\ Consumed = Len(plan[1].bytes) =>
             sink = ProcessBuffer(program, plan[1].bytes, <<>>).out)

\* C7: antenna folding.  For every antenna byte the decoded antenna is
\* ((raw - 1) mod 4) + 1, lies in 1..4, and bytes 1..8 give 1,2,3,4,1,2,3,4.
C7_AntennaFolding ==
    (program = "parse_frame" /\ pc = "return" /\ arg.kind = "valid")
    => (/\ ret.kind = "reading"
        /\ ret.antenna \in 1..4
        /\ ret.antenna = ((arg.ant - 1) % 4) + 1
        /\ arg.ant \in 1..8 => ret.antenna = <<1, 2, 3, 4, 1, 2, 3, 4>>[arg.ant])

C7_Witness ==
    /\ program = "parse_frame"
    /\ pc = "return"
    /\ arg.kind = "valid"
    /\ arg.ant = 8
    /\ ret.antenna = 4

\* C8: RSSI decode, in tenths of a dBm: raw when raw <= 32767, raw - 65536
\* above, never clamped (FFFF -> -1, 0000 -> 0, 7FFF -> 32767, 8000 -> -32768).
C8_RssiDecode ==
    (program = "parse_frame" /\ pc = "return")
    => (/\ ret.kind \in {"reading", "rssi"}
        /\ arg.rssi <= 32767 => ret.rssi = arg.rssi
        /\ arg.rssi > 32767 => ret.rssi = arg.rssi - 65536
        /\ arg.rssi = 65535 => ret.rssi = -1
        /\ arg.rssi = 0 => ret.rssi = 0
        /\ arg.rssi = 32767 => ret.rssi = 32767
        /\ arg.rssi = 32768 => ret.rssi = -32768)

C8_Witness ==
    /\ program = "parse_frame"
    /\ pc = "return"
    /\ arg.kind = "valid"
    /\ arg.rssi = 65535
    /\ ret.rssi = -1

\* C9 (as claimed): the sample frame (PC 0x3000, 12-byte EPC, RSSI raw
\* 0xFFCE, antenna byte 0x02), once read whole, is logged as that 12-byte
\* EPC with antenna 2 and rssi -5.0.
C9_SampleFrameDelivered ==
    (/\ IsReader
     /\ pc = "streaming"
     /\ plan = <<ExampleFrame>>
     /\ incoming = <<>>)
    => sink = <<[epc |-> BytesHex(EpcPattern(6, "plain")),
                 antenna |-> 2, rssi |-> -50]>>

\* C10 (as claimed): no frame ends the stream: a loop iteration that reads
\* bytes (a frame with EPC length 0 or too short for its declared EPC
\* included) leaves the session streaming.
C10_BadFrameKeepsStreaming ==
    [][(pc = "streaming" /\ incoming' # incoming) => pc' = "streaming"]_vars

\* C11 (as claimed): while streaming, a frame that fails the checksum or
\* whose command byte is not 0x83 is skipped: the iteration that reads its
\* bytes logs nothing and leaves the session streaming.
C11_BadFrameSkipped ==
    [][(/\ IsReader
        /\ pc = "streaming"
        /\ Len(plan) = 1
        /\ plan[1].kind = "corrupt"
        /\ incoming' # incoming)
       => (sink' = sink /\ pc' = "streaming")]_vars

\* C12 (as claimed): mutual exclusion on the transport.  A configuration
\* script never holds the port while a reader holds it, and no frame of a
\* configuration script is written while the reader is streaming.
ReaderHoldsPort == IsReader /\ pc \in {"open", "started", "streaming", "stopping"}

PeerHoldsPort == peer.at = "sending"

C12_TransportExclusive ==
    /\ [](~(ReaderHoldsPort /\ PeerHoldsPort))
    /\ [][(IsReader /\ pc = "streaming" /\ pc' = "streaming")
          => written' = written]_vars

\* C13 (as claimed): session lifecycle.  The start frame is the first thing
\* written and only on an open port; a reader that has ended after starting
\* the inventory has written the stop frame last; nothing else is written.
StartFrame == FromHex(START_INVENTORY_HEX)
StopFrame == FromHex(STOP_INVENTORY_HEX)

C13_Lifecycle ==
    IsReader =>
        /\ written \in {<<>>, <<StartFrame>>, <<StartFrame, StopFrame>>}
        /\ pc \in {"start", "failed"} => written = <<>>
        /\ exit_code # <<>> => written \in {<<>>, <<StartFrame, StopFrame>>}

\* C14: the shutdown is idempotent.  Once the shutdown has begun, nothing
\* more is written and the session only goes on to closed, whatever signals
\* arrive; once closed nothing changes.
C14_CloseIdempotent ==
    [][(IsReader /\ pc \in {"stopping", "closed"})
       => (/\ written' = written
           /\ exit_code' \in {exit_code, <<0>>}
           /\ pc' \in {pc, "closed"})]_vars

C14_Witness ==
    /\ program = "scripts"
    /\ pc = "closed"
    /\ signals = 2
    /\ ~fault
    /\ written = <<StartFrame, StopFrame>>

\* C15: cooperative cancellation.  After a signal no further reading is
\* logged, and a streaming or stopping session that got a signal sends the
\* stop frame and ends (the port not having failed).
C15_Cancellation ==
    /\ [][(IsReader /\ signals > 0) => sink' = sink]_vars
    /\ (IsReader /\ signals > 0 /\ pc \in {"streaming", "stopping"} /\ ~fault)
         ~> (pc = "closed" /\ written = <<StartFrame, StopFrame>>)

C15_Witness ==
    /\ program = "local"
    /\ pc = "closed"
    /\ signals = 1
    /\ ~fault
    /\ sink # <<>>
    /\ written = <<StartFrame, StopFrame>>

\* C16 (as claimed): a reader that ended on a transport error reports it: its
\* exit status is not the 0 of a run ended by a signal.
C16_ErrorReported ==
    (IsReader /\ fault /\ exit_code # <<>>) => exit_code # <<0>>

\* the frames of command cmd written so far
FramesOf(cmd) == {i \in 1..Len(written) : written[i][5] = cmd}

\* C17 (as claimed): a power outside 5..30 is rejected: no set-power frame
\* (command 0x10) is written and the setting is not reported as done.
C17_PowerRejected ==
    (/\ program = "set_config"
     /\ pc \notin {"start", "failed", "potencia"}
     /\ "potencia" \in config.has
     /\ (config.potencia < 5 \/ config.potencia > 30))
    => (/\ FramesOf(16) = {}
        /\ "potencia" \in DOMAIN result => ~result["potencia"].success)

\* C18 (as claimed): the power is clamped to 5..30: the set-power frame
\* carries 500 for an input below 5 and 3000 for an input above 30.
Clamp(x, lo, hi) == IF x < lo THEN lo ELSE IF x > hi THEN hi ELSE x

C18_PowerClamped ==
    (/\ program = "set_config"
     /\ pc \notin {"start", "failed", "potencia"}
     /\ "potencia" \in config.has)
    => \A i \in FramesOf(16) :
         /\ written[i][8] * 256 + written[i][9] = Clamp(config.potencia, 5, 30) * 100
         /\ written[i][10] * 256 + written[i][11] = Clamp(config.potencia, 5, 30) * 100

\* C19: for every dbm in 5..30 the set-power frame (command 0x10) carries
\* dbm * 100 big-endian in the read-power and in the write-power field;
\* for 20 both are 07 D0.
C19_PowerFields ==
    (program = "PowerFrameHex" /\ pc = "return" /\ arg.potencia \in 5..30)
    => LET f == ret.bytes
       IN /\ Len(f) = 14
          /\ f[5] = 16
          /\ f[8] * 256 + f[9] = arg.potencia * 100
          /\ f[10] * 256 + f[11] = arg.potencia * 100
          /\ <<f[8], f[9]>> = <<f[10], f[11]>>
          /\ arg.potencia = 20 => <<f[8], f[9]>> = <<7, 208>>

C19_Witness ==
    /\ program = "PowerFrameHex"
    /\ pc = "return"
    /\ arg.potencia = 20
    /\ SubSeq(ret.bytes, 8, 11) = <<7, 208, 7, 208>>

\* C20 (as claimed): a frequency outside 840000..928000 writes no frame
\* and gives a failure result under the frequency setting; one inside is
\* sent as command 0x14 with channel count 1 and the 3 bytes high, mid, low.
C20_FrequencyRange ==
    (/\ program = "set_config"
     /\ pc \in {"fastid", "finish", "done"}
     /\ "frequencia" \in config.has
     /\ config.frequencia # 0)
    => IF 840000 <= config.frequencia /\ config.frequencia <= 928000
       THEN /\ FramesOf(20) # {}
            /\ \A i \in FramesOf(20) :
                 SubSeq(written[i], 6, 9) =
                     <<1, (config.frequencia \div 65536) % 256,
                       (config.frequencia \div 256) % 256,
                       config.frequencia % 256>>
       ELSE /\ FramesOf(20) = {}
            /\ "frequencia" \in DOMAIN result
            /\ ~result["frequencia"].success

\* C21: get_fastid gives on/off only when the reply is the FastID response
\* (0x5F) and its status byte is 0x01; with any other status byte, another
\* command or no reply it gives no value.
C21_FastidUnknown ==
    (program = "check_config" /\ pc = "return" /\ arg.kind = "fastid")
    => IF /\ Len(arg.resp) >= 9
          /\ SubSeq(arg.resp, 1, 2) = <<200, 140>>
          /\ arg.resp[5] = 95
          /\ arg.resp[8] = 1
       THEN ret = [kind |-> "fastid", ligado |-> arg.resp[9] = 1]
       ELSE ret = NoValue

C21_Witness ==
    /\ program = "check_config"
    /\ pc = "return"
    /\ arg.kind = "fastid"
    /\ Len(arg.resp) >= 9
    /\ arg.resp[5] = 95
    /\ arg.resp[8] = 0
    /\ arg.resp[9] = 1
    /\ ret = NoValue

\* C22: get_region reports a region for every region response (0x2F): the
\* byte as two uppercase hex digits, known exactly for the bytes of the
\* table (01 02 04 08 16 32 3C 3D 3E 40 41 43 45), unknown with its code
\* for every other byte, 00 included.
RegionTable == {1, 2, 4, 8, 22, 50, 60, 61, 62, 64, 65, 67, 69}

C22_RegionTable ==
    (/\ program = "check_config"
     /\ pc = "return"
     /\ arg.kind = "regiao"
     /\ Len(arg.resp) >= 8
     /\ SubSeq(arg.resp, 1, 2) = <<200, 140>>
     /\ arg.resp[5] = 47)
    => (/\ ret.kind = "regiao"
        /\ IntHex(ret.regiao) = arg.resp[7]
        /\ Len(ret.regiao) = 2
        /\ ret.known <=> arg.resp[7] \in RegionTable)

C22_Witness ==
    /\ program = "check_config"
    /\ pc = "return"
    /\ arg.kind = "regiao"
    /\ Len(arg.resp) >= 8
    /\ arg.resp[5] = 47
    /\ arg.resp[7] = 0
    /\ ret = [kind |-> "regiao", regiao |-> <<0, 0>>, known |-> FALSE]

\* C23 (as claimed): for an antenna mask 00..FF set_config writes the
\* well-formed frame of command 0x28 with data 01 00 mask.
C23_AntennaFrame ==
    (/\ program = "set_config"
     /\ pc \in {"frequencia", "fastid", "finish", "done"}
     /\ "antenas" \in config.has
     /\ IntHex(config.antenas) <= 255)
    => \E i \in FramesOf(40) :
         written[i] = EncodeFrame(40, <<1, 0, IntHex(config.antenas)>>)

\* C24 (as claimed): a setting is reported as done only on a well-formed
\* reply carrying the acknowledgement code of its command, and set_config
\* sends no get request.
CommandOf(key) ==
    CASE key = "potencia" -> 16
      [] key = "regiao" -> 44
      [] key = "antenas" -> 40
      [] key = "frequencia" -> 20
      [] key = "fastid" -> 92

C24_SuccessNeedsAck ==
    program = "set_config" =>
        /\ \A key \in DOMAIN result :
             result[key].success =>
                 /\ WellFramed(FromHex(result[key].response))
                 /\ FromHex(result[key].response)[5] = AckOf(CommandOf(key))
        /\ \A i \in 1..Len(written) :
             written[i][5] \in {16, 44, 40, 20, 92, 140}

\* C25 (as claimed): command/response correlation.  When a frame of another
\* command arrives before the matching response within the timeout, the
\* call still returns the matching response; with no matching response it
\* returns none.
C25_Correlation ==
    (program = "check_config" /\ pc = "return" /\ arg.kind = "call")
    => (/\ arg.resp \in {FirmwareReply, OtherReply \o FirmwareReply}
          => (ret.ok /\ PyFrom(ret.resp, Len(ret.resp) - Len(FirmwareReply))
                          = FirmwareReply)
        /\ arg.resp \in {<<>>, OtherReply} => ~ret.ok)

\* C26 (as claimed): invalid frames before the response are discarded and
\* the call goes on: after one or two of them the response is returned by
\* itself, after three the call is given up.
InvalidRuns(n) ==
    IF n = 1 THEN {NoiseReply, BadReply}
    ELSE IF n = 2 THEN {NoiseReply \o NoiseReply, BadReply \o BadReply}
    ELSE {NoiseReply \o NoiseReply \o NoiseReply, BadReply \o BadReply \o BadReply}

C26_Desync ==
    (program = "check_config" /\ pc = "return" /\ arg.kind = "call")
    => (/\ \A n \in {1, 2} : \A junk \in InvalidRuns(n) :
              arg.resp = junk \o FirmwareReply
                  => (ret.ok /\ ret.resp = FirmwareReply)
        /\ \A junk \in InvalidRuns(3) :
              arg.resp = junk \o FirmwareReply => ~ret.ok)

\* C27 (as claimed): resynchronisation keeps later frames.  When noise or a
\* truncated frame is immediately followed by a complete valid inventory
\* frame, once everything is read the valid frame, and nothing else, has
\* been delivered.
C27_ResyncKeepsFrame ==
    (/\ IsReader
     /\ Len(plan) = 2
     /\ plan[1].kind \in {"noise", "truncated"}
     /\ incoming = <<>>
     /\ ~fault)
    => sink = <<ExpectedReading(plan[2])>>

\* C28 (as claimed): device access lifecycle.  Whatever register, revoke,
\* reinstate and authenticate operations came before, authenticate for a
\* registered device with its MAC succeeds exactly when the device is not
\* revoked now (so again after a reinstate), and while a device is revoked
\* authenticate and every request bearing one of its tokens get a 401.
TokenRequests == {"refresh", "readings", "heartbeat"}

C28_AccessLifecycle ==
    program = "cloud" =>
        /\ request.op = "authenticate" =>
              (\A d \in db.devices :
                  (/\ d.device_id = request.device_id
                   /\ d.mac_address = request.mac_address)
                  => /\ response.status = 200 <=> ~d.is_revoked
                     /\ d.is_revoked => response.status = 401)
        /\ (/\ request.op \in TokenRequests
            /\ request.token \in held
            /\ \E d \in FindDevices(request.token.device_id) : d.is_revoked)
           => response.status = 401

\* a request bearing a token issued before the revocation has been turned
\* down because the device is revoked
C28_Witness ==
    /\ program = "cloud"
    /\ request.op \in TokenRequests
    /\ request.token \in held
    /\ response.status = 401
    /\ response.detail = "Device has been revoked"

\* C29 (as claimed): registering a MAC address that is already registered
\* is answered 400 and leaves the devices unchanged; there is at most one
\* record per MAC address, and its device_id is the id derived from that MAC.
C29_RegisterOnce ==
    /\ [](program = "cloud" =>
            \A d, e \in db.devices :
                /\ d.mac_address = e.mac_address => d = e
                /\ d.device_id = generate_device_id(d.mac_address))
    /\ [][(/\ register_device
           /\ request'.key_ok
           /\ \E d \in db.devices : d.mac_address = upper(request'.mac_address))
          => (response'.status = 400 /\ db' = db)]_vars

\* C30 (as claimed): a heartbeat of an authenticated, non-revoked device is
\* answered 200 with status ok, and the device's record then holds the
\* reported status and the time of the request as last_seen.
C30_HeartbeatRecorded ==
    [][(/\ device_heartbeat
        /\ request'.token \in held
        /\ request'.device_id = request'.token.device_id
        /\ verify_device_token(request'.token).status = 200)
       => /\ response'.status = 200
          /\ response'.body.status = "ok"
          /\ \A d \in (db').devices :
                d.device_id = request'.device_id
                => (d.status = request'.device_status /\ d.last_seen = <<now>>)]_vars

\* the bytes between header and trailer hold the pair 0D 0A
HasCrLf(bytes) ==
    \E i \in 3..(Len(bytes) - 3) : bytes[i] = 13 /\ bytes[i + 1] = 10

\* C31 (as claimed): frame boundaries come from the length field.  A valid
\* inventory frame whose EPC, RSSI or checksum bytes hold 0D 0A, once read
\* whole, has given exactly one reading, with the full EPC.
C31_LengthDelimited ==
    (/\ IsReader
     /\ Len(plan) = 1
     /\ plan[1].kind = "valid"
     /\ HasCrLf(plan[1].bytes)
     /\ incoming = <<>>
     /\ ~fault)
    => sink = <<ExpectedReading(plan[1])>>

\* C32 (as claimed): while streaming every valid inventory frame gives
\* exactly one reading, in arrival order, whatever the length of its EPC.
\* (Frames holding 0D 0A in their data are left to C31.)
C32_EveryFrameDelivered ==
    (/\ IsReader
     /\ \A i \in 1..Len(plan) :
           plan[i].kind = "valid" /\ ~HasCrLf(plan[i].bytes)
     /\ incoming = <<>>
     /\ ~fault)
    => sink = [i \in 1..Len(plan) |-> ExpectedReading(plan[i])]

NoDuplicates(list) == \A i, j \in 1..Len(list) : list[i] = list[j] => i = j

FailedInSync(reading) == reading \in Range(failed)

\* C33 (as claimed): sync_cached_readings terminates, and when it returns
\* (the other thread not having touched the cache) the cache holds the
\* readings of the cache it started from whose publish failed during the
\* sync, each once and in their original order.
C33_SyncLeavesFailed ==
    /\ (program = "agent" /\ sync_at = "loop") ~> (sync_at = "returned")
    /\ []((/\ program = "agent"
           /\ sync_at = "returned"
           /\ log_pos = 0
           /\ NoDuplicates(snapshot))
          => cached_readings = SelectSeq(snapshot, FailedInSync))

\* C34 (as claimed): with offline mode enabled, in every interleaving of
\* the two threads a reading whose publish failed, and that has not been
\* published since nor evicted from a full cache, is in cached_readings.
C34_NoReadingLost ==
    (program = "agent" /\ offline_mode_enabled)
    => \A reading \in owed : reading \in Range(cached_readings)

\* C35: the offline cache is bounded and first-in-first-out.  The cache
\* never holds more than max_offline_readings readings; a _cache_reading
\* call (a publish that failed) on a full cache evicts the oldest reading
\* and appends the new one, on any other appends it; with offline mode
\* disabled the call leaves the cache as it is.
CachedBy(reading) ==
    IF offline_mode_enabled
    THEN /\ Len(cached_readings') <= max_offline_readings
         /\ cached_readings' =
              Append(IF Len(cached_readings) >= max_offline_readings
                     THEN Tail(cached_readings) ELSE cached_readings, reading)
    ELSE cached_readings' = cached_readings

C36_HeartbeatIsolation ==
    /\ [](program = "cloud" =>
            \A d \in db.devices : d.is_revoked => d.status = "revoked")
    /\ [][device_heartbeat =>
            \A d \in db.devices :
                d.device_id # request'.token.device_id
                => \E e \in (db').devices : /\ e.device_id = d.device_id
                                            /\ e.status = d.status
                                            /\ e.last_seen = d.last_seen]_vars

\* a heartbeat bearing a valid token of one device and naming another,
\* revoked, device has been served
C36_Witness ==
    /\ program = "cloud"
    /\ request.op = "heartbeat"
    /\ request.token \in held
    /\ request.device_id # request.token.device_id
    /\ response.status \notin {401}
    /\ \E d \in db.devices : /\ d.device_id = request.device_id
                              /\ d.is_revoked
                              /\ d.status = "revoked"

\* the calls made for a delivery tag, in order
CallsFor(tag) ==
    SelectSeq(settled, LAMBDA entry : entry.tag = tag)

Acks == {i \in 1..Len(settled) : settled[i].call = "ack"}

====
